---------------------------- MODULE Spec2Model ----------------------------
(***************************************************************************)
(* A model of the event-to-deployment pipeline of                          *)
(* hono-kube-deploy-automation (package webhook and package client).       *)
(*                                                                         *)
(* The module holds four state machines over one set of variables:         *)
(*   - the Retry Driver            (Server.retryKubeResources)             *)
(*   - the Readiness Waiter        (KubeClient.WaitForPodsRunning)         *)
(*   - the cleanup fan-out         (Server.issueCommentEventCleanup,       *)
(*                                  Server.pullRequestEventCleanup)        *)
(*   - the deploy run              (Server.handleIssueCommentEvent,        *)
(*                                  Server.handlePullRequestEvent,         *)
(*                                  Server.deployKubeResources)            *)
(* and one specification per entry point: SpecRetry, SpecWait,             *)
(* SpecCleanup and SpecDeploy.  SpecWaitLive, SpecCleanupLive and          *)
(* SpecDeployLive add the fairness of the scheduler to SpecWait,           *)
(* SpecCleanup and SpecDeploy.                                             *)
(*                                                                         *)
(* The components these machines call into have their own machines:        *)
(*   - the cluster client          (KubeClient.Deploy, KubeClient.Delete)  *)
(*                                  in SpecCluster                         *)
(*   - the package registry        (GithubClient.DeletePackageImage)       *)
(*                                  in SpecPackage                         *)
(*   - the cleanups on real state: the issue-comment cleanup run twice,    *)
(*     the PR-merge cleanup once    in SpecCleanTwice                      *)
(*   - the event processing        (WebhookHandler,                        *)
(*                                  Server.processWebhookEvents)           *)
(*                                  in SpecEvents                          *)
(*   - the identity of a deploy    (Server.extractEventData)               *)
(*                                  in SpecIdentity                        *)
(*   - the Workflow Trigger        (GithubClient.TriggerWorkFlow)          *)
(*                                  in SpecWorkflow                        *)
(*   - the concurrent pipeline runs of one Server and the local source     *)
(*     directory they share        (WebhookHandler,                        *)
(*                                  GithubClient.DownloadGithubRepository) *)
(*                                  in SpecRuns                            *)
(*   - the cluster-delete unit     (Server.cleanupKubeResources)           *)
(*                                  in SpecKubeCleanup                     *)
(* Durations are in seconds.                                               *)
(***************************************************************************)
EXTENDS Integers, Sequences, FiniteSets, TLC

(***************************************************************************)
(* Bounds of the model.                                                    *)
(***************************************************************************)
\* largest attempt budget handed to the Retry Driver in SpecRetry
MaxAttempts == 5
\* longest rendered manifest bundle
MaxBundle == 2
\* most pods one pod listing returns
MaxPods == 2
\* largest replica count of a workload
MaxReplicas == 2
\* most Deploy and Delete calls made on the cluster in SpecCluster
MaxOps == 2
\* most versions the package has on the registry
MaxVersions == 2
\* most labels a pull request carries
MaxLabels == 2
\* longest commit identifier of a pull request's head
MaxSha == 8
\* longest time one status query of the Workflow Trigger takes
MaxLatency == 10
\* most pipeline runs of one Server under way at one time
MaxRuns == 2

(***************************************************************************)
(* Program constants.                                                      *)
(***************************************************************************)
\* retryKubeResources(3, ...) in deployKubeResources and cleanupKubeResources
KubeAttempts == 3
\* retryKubeResources(3, 10*time.Second, ...) in deployKubeResources
DeploySleep == 10
\* retryKubeResources(3, 5*time.Second, ...) in cleanupKubeResources
CleanupSleep == 5
\* math.Min(float64(sleep)*2, float64(30*time.Second))
MaxSleep == 30
\* pr.GetHead().GetSHA()[:7] in extractEventData
TagLen == 7
\* initialInterval, maxInterval and maxDuration of waitForWorkflowCompletion
InitialInterval == 5
WfMaxInterval == 30
MaxDuration == 60

VARIABLES
    \* ---- the caller's context (data.ctx, or the ctx a test supplies)
    ctxDone,        \* TRUE once the context is cancelled / its deadline fired
    \* ---- Retry Driver
    rPc,            \* "idle" | "call" | "sleep" | "final" | "done"
    rAttempts,      \* parameter attempts
    rInitial,       \* parameter initialSleep
    rI,             \* loop variable i
    rSleep,         \* local sleep
    rErr,           \* local err: "nil" | "transient" | "cancelled"
    rLog,           \* what the driver did: calls, sleeps, deadline seen asleep
    rRet,           \* the value returned
    \* ---- Readiness Waiter
    wPc,            \* "idle" | "poll" | "select" | "done"
    wLabels,        \* parameter deploymentLabels: "empty" | "valid" | "invalid"
    wExpected,      \* parameter expectedPods
    wPods,          \* podList.Items of the latest listing, as pod phases
    wRet,           \* the value returned
    \* ---- cleanup fan-out
    cFlow,          \* "issue" (issueCommentEventCleanup) | "pr" (pullRequestEventCleanup)
    mPc,            \* the calling goroutine: "idle" | "closer" | "spawn" | "collect" | "returned"
    mNext,          \* the next unit the caller spawns
    closerPc,       \* the closer goroutine: "none" | "start" | "blocked" | "released" | "returned" | "closed"
    wg,             \* the WaitGroup counter
    chanClosed,     \* errChan is closed
    unit,           \* each unit: "unspawned" | "running" | "sending" | "exiting" | "done"
    outcome,        \* each unit's operation: "unknown" | "ok" | "failed"
    errs,           \* collectCleanupErrors' errs, by sending unit
    cRet,           \* the value the cleanup returned: "none" | "nil" | "composite"
    panicked,       \* the process died of a runtime panic
    \* ---- deploy run
    flow,           \* "issue" (comment "deploy dev" on a pull request) | "pr" (merge to main)
    pc,             \* where the run is
    bundle,         \* what the Manifest Renderer returns for the checked-out tree
    kubeResources,  \* the rendered bundle once handleKustomization returned
    imageTag,       \* data.imageTag
    dIdx,           \* index of the manifest the current loop is at
    dRes,           \* the loop's res: the text handed to Deploy
    trace,          \* the steps that ran, in order, each with its result
    deploymentLabels, \* labels retained from the last workload applied
    expectedPods,   \* replicas retained from the last workload applied
    dRet,           \* what the run returned: "none" | "nil" | "err"
    \* ---- the cluster behind KubeClient
    cluster,        \* per kind, the resource stored under the manifest's name
    clock,          \* time.Now()
    kHist,          \* the Deploy and Delete calls made, each with what it did
    \* ---- the package registry behind GithubClient.DeletePackageImage
    registry,       \* the package's versions, in the order the listing gives them
    pPc,            \* each caller: "idle" | "list" | "delete" | "done"
    pTag,           \* each caller's parameter tag
    pSeen,          \* each caller's packageVersions
    pCalls,         \* the ids each caller asked the registry to delete
    pRet,           \* what each caller's call returned
    \* ---- what a cleanup works on, and the cleanup runs made
    run,            \* 0, or which cleanup run of the identity this is
    localImage,     \* the daemon holds the identity's image
    localRepo,      \* the local source tree exists
    first,          \* how the first cleanup run ended
    \* ---- event processing
    event,          \* the event handed to processWebhookEvents
    cfgLabel,       \* the configured github.prDeployLabel
    ePc,            \* where the processing is
    route,          \* the flow chosen: "none" | "deploy" | "cleanup"
    effects,        \* the collaborators invoked, in order
    failed,         \* a cleanup unit failed
    lIdx,           \* the label the loop of handlePullRequestEvent is at
    sIdx,           \* the step the deploy flow is at
    pending,        \* the cleanup units still to run
    eRet,           \* what processWebhookEvents returned
    telemetry,      \* entries sent to the telemetry sink by the handlers
    \* ---- identity extraction
    idIn,           \* what extractEventData is called with
    data,           \* the eventData it returned
    \* ---- Workflow Trigger
    wfPc,           \* "idle" | "dispatch" | "sleep" | "query" | "final" | "done"
    interval,       \* local interval
    elapsed,        \* time.Since(startTime)
    wfLog,          \* the dispatch, the sleeps and the status queries made
    wfRet,          \* what waitForWorkflowCompletion or the dispatch returned
    latest,         \* the run the forge lists first for the file and branch:
                    \* "none", "old" (there before the dispatch) or "own"
    \* ---- the pipeline runs of one Server and its local source directory
    rnPc,           \* where each run is
    rnReq,          \* the repository, branch and flow of each run's event
    tree,           \* the clone Options.LocalRepoDir holds, or NoTree
    lastWrite,      \* the last update or delete of the directory
    \* ---- the cluster-delete cleanup unit
    kcPc,           \* "idle" | "run" | "done"
    kcIdx,          \* the manifest of the bundle the loop is at
    kcTries,        \* the failed attempts of the Retry Driver on it
    kcLog,          \* the Delete attempts made: manifest and outcome
    kcRet           \* "none" | "nil" | "err" (sent on errChan)

retryVars == <<rPc, rAttempts, rInitial, rI, rSleep, rErr, rLog, rRet>>

waitVars == <<wPc, wLabels, wExpected, wPods, wRet>>

cleanVars == <<cFlow, mPc, mNext, closerPc, wg, chanClosed, unit, outcome,
               errs, cRet, panicked>>

deployVars == <<flow, pc, bundle, kubeResources, imageTag, dIdx, dRes, trace,
                deploymentLabels, expectedPods, dRet>>

clusterVars == <<cluster, clock, kHist>>

pkgVars == <<registry, pPc, pTag, pSeen, pCalls, pRet>>

envVars == <<run, localImage, localRepo, first>>

eventVars == <<event, cfgLabel, ePc, route, effects, failed, lIdx, sIdx, pending,
               eRet, telemetry>>

idVars == <<idIn, data>>

\* the variables of the operations modelled on their own
wfVars == <<wfPc, interval, elapsed, wfLog, wfRet, latest>>

runVars == <<rnPc, rnReq, tree, lastWrite>>

kcVars == <<kcPc, kcIdx, kcTries, kcLog, kcRet>>

sideVars == <<runVars, kcVars>>

auxVars == <<idVars, wfVars, sideVars>>

\* the variables of the components the four machines above call into, and
\* of the event processing that calls them
extVars == <<clusterVars, pkgVars, envVars, eventVars, auxVars>>

vars == <<ctxDone, retryVars, waitVars, cleanVars, deployVars, extVars>>

-----------------------------------------------------------------------------
(***************************************************************************)
(* Helpers.                                                                *)
(***************************************************************************)
Min(a, b) == IF a <= b THEN a ELSE b

Range(s) == {s[k] : k \in 1..Len(s)}

RECURSIVE Pow2(_)
Pow2(n) == IF n <= 0 THEN 1 ELSE 2 * Pow2(n - 1)

-----------------------------------------------------------------------------
(***************************************************************************)
(* The Retry Driver: Server.retryKubeResources.                            *)
(***************************************************************************)
\* what one invocation of kubeFunc returns: nil, an error of the cluster
\* API, or the error of a cancelled / expired context (Deploy and Delete
\* run under their own 20-minute sub-context)
KubeOutcomes == {"nil", "transient", "cancelled"}

NoRet == [kind |-> "none", attempts |-> 0, last |-> "nil"]

\* for i := 0; i < attempts; i++
LoopCondOffByOne(i, attempts) == i <= attempts
LoopCond(i, attempts) == i < attempts

\* if i < attempts-1 { sleep }
MaySleep(i, attempts) == i < attempts - 1

\* sleep = time.Duration(math.Min(float64(sleep)*2, float64(30*time.Second)))
NextSleepNoCeiling(sleep) == sleep * 2
NextSleep(sleep) == Min(sleep * 2, MaxSleep)

\* fmt.Errorf("after %d attempts, last error: %s", attempts, err)
FinalErrSwallowed(attempts, err) == [kind |-> "nil", attempts |-> 0, last |-> "nil"]
FinalErr(attempts, err) == [kind |-> "err", attempts |-> attempts, last |-> err]

\* var err error; sleep := initialSleep; i := 0
RetryEnter(attempts, initialSleep) ==
    /\ rAttempts' = attempts
    /\ rInitial' = initialSleep
    /\ rI' = 0
    /\ rSleep' = initialSleep
    /\ rErr' = "nil"
    /\ rLog' = <<>>
    /\ rRet' = NoRet
    /\ rPc' = IF LoopCond(0, attempts) THEN "call" ELSE "final"

\* err = kubeFunc(); if err == nil { return nil }; warn; then either the
\* timer is created (i < attempts-1) or the iteration ends
RetryCall(out) ==
    /\ rPc = "call"
    /\ rLog' = Append(rLog, [ev |-> "call", out |-> out, d |-> 0])
    /\ rErr' = out
    /\ IF out = "nil"
         THEN /\ rPc' = "done"
              /\ rRet' = [kind |-> "nil", attempts |-> 0, last |-> "nil"]
              /\ UNCHANGED rI
         ELSE IF MaySleep(rI, rAttempts)
           THEN /\ rPc' = "sleep"
                /\ UNCHANGED <<rI, rRet>>
           ELSE /\ rI' = rI + 1
                /\ rPc' = IF LoopCond(rI + 1, rAttempts) THEN "call" ELSE "final"
                /\ UNCHANGED rRet
    /\ UNCHANGED <<rAttempts, rInitial, rSleep>>

\* <-timer.C; sleep is doubled up to the ceiling; i++
RetryTimer ==
    /\ rPc = "sleep"
    /\ rLog' = Append(rLog, [ev |-> "sleep", out |-> "nil", d |-> rSleep])
    /\ rSleep' = NextSleep(rSleep)
    /\ rI' = rI + 1
    /\ rPc' = IF LoopCond(rI + 1, rAttempts) THEN "call" ELSE "final"
    /\ UNCHANGED <<rAttempts, rInitial, rErr, rRet>>

\* finalErr := ...; util.NotifyError(finalErr); return finalErr
RetryFinal ==
    /\ rPc = "final"
    /\ rRet' = FinalErr(rAttempts, rErr)
    /\ rPc' = "done"
    /\ UNCHANGED <<rAttempts, rInitial, rI, rSleep, rErr, rLog>>

\* The caller's context is cancelled or its deadline fires.  The driver
\* has no case on ctx.Done(): the only trace it leaves is in this log.
CtxFire ==
    /\ ~ctxDone
    /\ ctxDone' = TRUE
    /\ rLog' = IF rPc = "sleep"
                 THEN Append(rLog, [ev |-> "deadline", out |-> "nil", d |-> 0])
                 ELSE rLog
    /\ UNCHANGED <<rPc, rAttempts, rInitial, rI, rSleep, rErr, rRet>>

RetryIdle ==
    /\ rPc = "idle"
    /\ rAttempts = 0
    /\ rInitial = 0
    /\ rI = 0
    /\ rSleep = 0
    /\ rErr = "nil"
    /\ rLog = <<>>
    /\ rRet = NoRet

-----------------------------------------------------------------------------
(***************************************************************************)
(* The Readiness Waiter: KubeClient.WaitForPodsRunning.                    *)
(***************************************************************************)
\* pod.Status.Phase: the waiter tells corev1.PodRunning from every other
\* phase, which "Pending" stands for
PodPhases == {"Pending", "Running"}

\* the lists a pod listing can return
PodLists == UNION {[1..n -> PodPhases] : n \in 0..MaxPods}

\* the label maps a caller can pass: nil or empty, one that makes a
\* selector, one whose keys or values labels.ValidatedSelectorFromSet rejects
LabelKinds == {"empty", "valid", "invalid"}

\* for _, pod := range podList.Items { if pod.Status.Phase == PodRunning { podsRunning++ } }
CountRunning(pods) == Cardinality({k \in 1..Len(pods) : pods[k] = "Running"})

\* podsRunning > 0 && podsRunning == len(podList.Items) && podsRunning == int(expectedPods)
PodsReadyIgnoresListed(running, listed, expected) ==
    running > 0 /\ running = expected
PodsReady(running, listed, expected) ==
    running > 0 /\ running = listed /\ running = expected

WaitIdle ==
    /\ wPc = "idle"
    /\ wLabels = "empty"
    /\ wExpected = 0
    /\ wPods = <<>>
    /\ wRet = "none"

\* ticker := time.NewTicker(60 * time.Second)
WaitEnter(labels, expected) ==
    /\ wPc' = "poll"
    /\ wLabels' = labels
    /\ wExpected' = expected
    /\ wPods' = <<>>
    /\ wRet' = "none"

\* one pass of the loop body up to the select: build the selector, list
\* the pods, count the running ones, return nil when all are running
WaitPoll ==
    /\ wPc = "poll"
    /\ IF wLabels = "invalid"
         THEN /\ wRet' = "selectorErr"
              /\ wPc' = "done"
              /\ UNCHANGED wPods
         ELSE \/ /\ wRet' = "listErr"
                 /\ wPc' = "done"
                 /\ UNCHANGED wPods
              \/ \E pods \in PodLists :
                   /\ wPods' = pods
                   /\ IF PodsReady(CountRunning(pods), Len(pods), wExpected)
                        THEN wRet' = "nil" /\ wPc' = "done"
                        ELSE wRet' = wRet /\ wPc' = "select"
    /\ UNCHANGED <<wLabels, wExpected>>

\* case <-ctx.Done(): with the return left out
WaitCtxDoneIgnored ==
    /\ wPc = "select"
    /\ ctxDone
    /\ wPc' = "poll"
    /\ UNCHANGED <<wLabels, wExpected, wPods, wRet>>
\* case <-ctx.Done(): return fmt.Errorf("context cancelled: %w", ctx.Err())
WaitCtxDone ==
    /\ wPc = "select"
    /\ ctxDone
    /\ wRet' = "ctxErr"
    /\ wPc' = "done"
    /\ UNCHANGED <<wLabels, wExpected, wPods>>

\* case <-ticker.C:
WaitTick ==
    /\ wPc = "select"
    /\ wPc' = "poll"
    /\ UNCHANGED <<wLabels, wExpected, wPods, wRet>>

-----------------------------------------------------------------------------
(***************************************************************************)
(* The cleanup fan-out: Server.issueCommentEventCleanup and                *)
(* Server.pullRequestEventCleanup, with the units they spawn and           *)
(* Server.collectCleanupErrors.                                            *)
(*                                                                         *)
(* errChan is unbuffered: a send completes only together with a receive.   *)
(* A send on the closed channel, and a close while a sender is blocked,    *)
(* panic.  wg.Wait() returns at once when the counter is 0; a waiter that  *)
(* was released and finds the counter raised again panics ("WaitGroup is   *)
(* reused before previous Wait has returned").                             *)
(***************************************************************************)
AllUnits == {"image", "kube", "repo", "package"}

\* a PR-merge cleanup that fans out like the issue-comment one
UnitsOfEither(f) == <<"image", "kube", "repo", "package">>

\* the units in the order the caller spawns them
UnitsOf(f) ==
    IF f = "issue" THEN <<"image", "kube", "repo", "package">>
                      ELSE <<"image", "repo">>

FlowUnits == Range(UnitsOf(cFlow))

CleanIdle ==
    /\ cFlow = "issue"
    /\ mPc = "idle"
    /\ mNext = 1
    /\ closerPc = "none"
    /\ wg = 0
    /\ chanClosed = FALSE
    /\ unit = [u \in AllUnits |-> "unspawned"]
    /\ outcome = [u \in AllUnits |-> "unknown"]
    /\ errs = <<>>
    /\ cRet = "none"
    /\ panicked = FALSE

\* var wg sync.WaitGroup; errChan := make(chan error)
CleanEnter(f) ==
    /\ cFlow' = f
    /\ mPc' = "closer"
    /\ mNext' = 1
    /\ closerPc' = "none"
    /\ wg' = 0
    /\ chanClosed' = FALSE
    /\ unit' = [u \in AllUnits |-> "unspawned"]
    /\ outcome' = [u \in AllUnits |-> "unknown"]
    /\ errs' = <<>>
    /\ cRet' = "none"
    /\ panicked' = FALSE

\* go func() { wg.Wait(); close(errChan) }()
MainGoCloser ==
    /\ ~panicked
    /\ mPc = "closer"
    /\ closerPc' = "start"
    /\ mPc' = "spawn"
    /\ UNCHANGED <<cFlow, mNext, wg, chanClosed, unit, outcome, errs, cRet, panicked>>

\* wg.Add(1); go <unit>
MainSpawn ==
    /\ ~panicked
    /\ mPc = "spawn"
    /\ mNext <= Len(UnitsOf(cFlow))
    /\ wg' = wg + 1
    /\ unit' = [unit EXCEPT ![UnitsOf(cFlow)[mNext]] = "running"]
    /\ mNext' = mNext + 1
    /\ mPc' = IF mNext = Len(UnitsOf(cFlow)) THEN "collect" ELSE "spawn"
    /\ UNCHANGED <<cFlow, closerPc, chanClosed, outcome, errs, cRet, panicked>>

\* the closer calls wg.Wait(): it returns at once on a zero counter
CloserWait ==
    /\ ~panicked
    /\ closerPc = "start"
    /\ closerPc' = IF wg = 0 THEN "returned" ELSE "blocked"
    /\ UNCHANGED <<cFlow, mPc, mNext, wg, chanClosed, unit, outcome, errs, cRet, panicked>>

\* the released waiter runs again: Wait returns, or panics on a counter
\* that was raised in between
CloserResume ==
    /\ ~panicked
    /\ closerPc = "released"
    /\ IF wg = 0
         THEN closerPc' = "returned" /\ UNCHANGED panicked
         ELSE panicked' = TRUE /\ UNCHANGED closerPc
    /\ UNCHANGED <<cFlow, mPc, mNext, wg, chanClosed, unit, outcome, errs, cRet>>

\* close(errChan)
CloserClose ==
    /\ ~panicked
    /\ closerPc = "returned"
    /\ closerPc' = "closed"
    /\ chanClosed' = TRUE
    /\ panicked' = (\E u \in AllUnits : unit[u] = "sending")
    /\ UNCHANGED <<cFlow, mPc, mNext, wg, unit, outcome, errs, cRet>>

\* the unit's operation returns: ImageDelete, the Delete loop under the
\* Retry Driver, DeleteLocalRepository or DeletePackageImage.  On an
\* error the unit goes on to errChan <- err
UnitRun(u) ==
    /\ ~panicked
    /\ unit[u] = "running"
    /\ \E o \in {"ok", "failed"} :
         /\ outcome' = [outcome EXCEPT ![u] = o]
         /\ unit' = [unit EXCEPT ![u] = IF o = "ok" THEN "exiting" ELSE "sending"]
    /\ UNCHANGED <<cFlow, mPc, mNext, closerPc, wg, chanClosed, errs, cRet, panicked>>

\* errChan <- err on the closed channel
UnitSendOnClosed(u) ==
    /\ ~panicked
    /\ unit[u] = "sending"
    /\ chanClosed
    /\ panicked' = TRUE
    /\ UNCHANGED <<cFlow, mPc, mNext, closerPc, wg, chanClosed, unit, outcome, errs, cRet>>

\* defer wg.Done()
UnitDone(u) ==
    /\ ~panicked
    /\ unit[u] = "exiting"
    /\ wg' = wg - 1
    /\ unit' = [unit EXCEPT ![u] = "done"]
    /\ closerPc' = IF closerPc = "blocked" /\ wg = 1 THEN "released" ELSE closerPc
    /\ UNCHANGED <<cFlow, mPc, mNext, chanClosed, outcome, errs, cRet, panicked>>

\* for err := range errChan { if err != nil { errs = append(errs, err) } }:
\* one receive, which completes the send of unit u
CollectRecv(u) ==
    /\ ~panicked
    /\ mPc = "collect"
    /\ ~chanClosed
    /\ unit[u] = "sending"
    /\ errs' = Append(errs, u)
    /\ unit' = [unit EXCEPT ![u] = "exiting"]
    /\ UNCHANGED <<cFlow, mPc, mNext, closerPc, wg, chanClosed, outcome, cRet, panicked>>

\* the range ends on the closed channel; len(errs) > 0 makes the
\* composite error, otherwise nil
CollectReturn ==
    /\ ~panicked
    /\ mPc = "collect"
    /\ chanClosed
    /\ cRet' = IF Len(errs) > 0 THEN "composite" ELSE "nil"
    /\ mPc' = "returned"
    /\ UNCHANGED <<cFlow, mNext, closerPc, wg, chanClosed, unit, outcome, errs, panicked>>

-----------------------------------------------------------------------------
(***************************************************************************)
(* The deploy run: Server.handleIssueCommentEvent (any action but          *)
(* "deleted") and Server.handlePullRequestEvent from the point where the   *)
(* identity is extracted, through issueCommentEventDeploy /                *)
(* pullRequestEventDeploy, handleContainerization and deployKubeResources. *)
(*                                                                         *)
(* A manifest text is a sequence of words; strings.Contains(res, "X") is   *)
(* "the word X occurs" and strings.Contains(res, "kind: Deployment") is    *)
(* "the word kind: is followed by the word Deployment".                    *)
(***************************************************************************)
NamespaceManifest ==
    [text |-> <<"kind:", "Namespace">>, labels |-> "empty", replicas |-> 0]
WorkloadManifest ==
    [text |-> <<"kind:", "Deployment", "image:", "latest">>,
     labels |-> "valid", replicas |-> 1]
ServiceManifest ==
    [text |-> <<"kind:", "Service">>, labels |-> "valid", replicas |-> 0]
\* a configuration bag whose data mentions the word Namespace
ConfigManifest ==
    [text |-> <<"kind:", "ConfigMap", "Namespace">>, labels |-> "empty", replicas |-> 0]

\* a workload whose text mentions the word Namespace
WorkloadNsManifest ==
    [text |-> <<"kind:", "Deployment", "image:", "latest", "Namespace">>,
     labels |-> "valid", replicas |-> 1]

Manifests ==
    {NamespaceManifest, WorkloadManifest, ServiceManifest, ConfigManifest,
     WorkloadNsManifest}

\* the bundle of an overlay with a namespace, a workload and a second
\* manifest whose text has the word Namespace
TwoNamespaceBundle == <<NamespaceManifest, WorkloadNsManifest, WorkloadManifest>>

\* kustomizer.Build(): any sequence of manifests up to MaxBundle, and the
\* bundle above
Bundles ==
    UNION {[1..n -> Manifests] : n \in 0..MaxBundle} \cup {TwoNamespaceBundle}

\* strings.Contains(res, "Namespace")
HasNamespaceWrongToken(text) == "namespace" \in Range(text)
HasNamespace(text) == "Namespace" \in Range(text)

\* strings.Contains(res, "kind: Deployment")
HasKindDeployment(text) ==
    \E k \in 1..(Len(text) - 1) : text[k] = "kind:" /\ text[k + 1] = "Deployment"

\* strings.Replace(res, "latest", data.imageTag, -1)
ReplaceLatest(text, tag) ==
    [k \in 1..Len(text) |-> IF text[k] = "latest" THEN tag ELSE text[k]]

\* if strings.Contains(res, "kind: Deployment") && data.imageTag != "latest" { res = ... }
TagSubstitution(text, tag) ==
    IF HasKindDeployment(text) /\ tag # "latest" THEN ReplaceLatest(text, tag) ELSE text

\* the first loop of deployKubeResources: the index of the first manifest
\* that contains "Namespace", 0 when there is none
FirstNamespace(res) ==
    IF \E k \in 1..Len(res) : HasNamespace(res[k].text)
      THEN CHOOSE k \in 1..Len(res) :
             /\ HasNamespace(res[k].text)
             /\ \A m \in 1..(k - 1) : ~HasNamespace(res[m].text)
      ELSE 0

\* if err != nil { return err }: where the run goes after a step
AfterStepIgnoresError(ok, next) == next
AfterStep(ok, next) == IF ok THEN next ELSE "done"

Event(step, idx, ok, text) == [step |-> step, idx |-> idx, ok |-> ok, text |-> text]

DeployIdle ==
    /\ flow = "issue"
    /\ pc = "idle"
    /\ bundle = <<>>
    /\ kubeResources = <<>>
    /\ imageTag = ""
    /\ dIdx = 0
    /\ dRes = <<>>
    /\ trace = <<>>
    /\ deploymentLabels = "empty"
    /\ expectedPods = 0
    /\ dRet = "none"

\* a step that calls one collaborator and returns its error
SimpleStep(here, step, next) ==
    /\ pc = here
    /\ \E ok \in BOOLEAN :
         /\ trace' = Append(trace, Event(step, 0, ok, <<>>))
         /\ pc' = AfterStep(ok, next)
         /\ dRet' = IF pc' = "done" THEN "err" ELSE dRet

\* s.getGithubRepo(data.ghRepoFullName, data.ghBranch)
DeployAcquire ==
    /\ SimpleStep("acquire", "acquire", "render")
    /\ UNCHANGED <<flow, bundle, kubeResources, imageTag, dIdx, dRes,
                   deploymentLabels, expectedPods>>
    /\ UNCHANGED <<ctxDone, extVars, retryVars, waitVars, cleanVars>>

\* kubeResources, err := s.handleKustomization(data.namespace)
DeployRender ==
    /\ SimpleStep("render", "render", "build")
    /\ kubeResources' = IF pc' = "build" THEN bundle ELSE kubeResources
    /\ UNCHANGED <<flow, bundle, imageTag, dIdx, dRes, deploymentLabels, expectedPods>>
    /\ UNCHANGED <<ctxDone, extVars, retryVars, waitVars, cleanVars>>

\* handleContainerization("deploy", ...): s.DockerClient.ImageBuild
DeployBuild ==
    /\ SimpleStep("build", "build", "push")
    /\ UNCHANGED <<flow, bundle, kubeResources, imageTag, dIdx, dRes,
                   deploymentLabels, expectedPods>>
    /\ UNCHANGED <<ctxDone, extVars, retryVars, waitVars, cleanVars>>

\* handleContainerization("deploy", ...): s.DockerClient.ImagePush
DeployPush ==
    /\ SimpleStep("push", "push", "nsScan")
    /\ UNCHANGED <<flow, bundle, kubeResources, imageTag, dIdx, dRes,
                   deploymentLabels, expectedPods>>
    /\ UNCHANGED <<ctxDone, extVars, retryVars, waitVars, cleanVars>>

\* deployKubeResources, first loop: find the namespace manifest and hand
\* its Deploy to the Retry Driver (3 attempts, 10 s)
DeployNamespace ==
    /\ pc = "nsScan"
    /\ IF FirstNamespace(kubeResources) = 0
         THEN /\ pc' = "workflow"
              /\ UNCHANGED <<dIdx, dRes, retryVars>>
         ELSE /\ pc' = "nsRetry"
              /\ dIdx' = FirstNamespace(kubeResources)
              /\ dRes' = kubeResources[FirstNamespace(kubeResources)].text
              /\ RetryEnter(KubeAttempts, DeploySleep)
    /\ UNCHANGED <<flow, bundle, kubeResources, imageTag, trace,
                   deploymentLabels, expectedPods, dRet>>
    /\ UNCHANGED <<ctxDone, extVars, waitVars, cleanVars>>

\* one attempt of the closure handed to the Retry Driver:
\* s.KubeClient.Deploy(data.ctx, []byte(res), data.namespace), and in the
\* second loop the retained labels and replicas of a workload
DeployKubeFunc ==
    /\ pc \in {"nsRetry", "applyRetry"}
    /\ \E out \in KubeOutcomes :
         /\ RetryCall(out)
         /\ trace' = Append(trace, Event(IF pc = "nsRetry" THEN "applyNs" ELSE "apply",
                                         dIdx, out = "nil", dRes))
         /\ IF out = "nil" /\ pc = "applyRetry" /\ HasKindDeployment(dRes)
              THEN /\ deploymentLabels' = kubeResources[dIdx].labels
                   /\ expectedPods' = kubeResources[dIdx].replicas
              ELSE UNCHANGED <<deploymentLabels, expectedPods>>
    /\ UNCHANGED <<flow, pc, bundle, kubeResources, imageTag, dIdx, dRes, dRet>>
    /\ UNCHANGED <<ctxDone, extVars, waitVars, cleanVars>>

DeploySleepEnds ==
    /\ pc \in {"nsRetry", "applyRetry"}
    /\ RetryTimer
    /\ UNCHANGED <<ctxDone, extVars, waitVars, cleanVars, deployVars>>

DeployRetryFails ==
    /\ pc \in {"nsRetry", "applyRetry"}
    /\ RetryFinal
    /\ UNCHANGED <<ctxDone, extVars, waitVars, cleanVars, deployVars>>

\* the Retry Driver is left behind
RetryLeave ==
    /\ rPc' = "idle"
    /\ rAttempts' = 0
    /\ rInitial' = 0
    /\ rI' = 0
    /\ rSleep' = 0
    /\ rErr' = "nil"
    /\ rLog' = <<>>
    /\ rRet' = NoRet

\* if err != nil { return err }; break
DeployNamespaceReturns ==
    /\ pc = "nsRetry"
    /\ rPc = "done"
    /\ pc' = AfterStep(rRet.kind = "nil", "workflow")
    /\ dRet' = IF pc' = "done" THEN "err" ELSE dRet
    /\ RetryLeave
    /\ UNCHANGED <<flow, bundle, kubeResources, imageTag, dIdx, dRes, trace,
                   deploymentLabels, expectedPods>>
    /\ UNCHANGED <<ctxDone, extVars, waitVars, cleanVars>>

\* s.GithubClient.TriggerWorkFlow(...): dispatch and poll the secrets workflow
DeployWorkflow ==
    /\ SimpleStep("workflow", "workflow", "apply")
    /\ dIdx' = 1
    /\ UNCHANGED <<flow, bundle, kubeResources, imageTag, dRes,
                   deploymentLabels, expectedPods>>
    /\ UNCHANGED <<ctxDone, extVars, retryVars, waitVars, cleanVars>>

\* deployKubeResources, second loop: skip a manifest that contains
\* "Namespace", substitute the tag in a workload, hand Deploy to the Retry
\* Driver; after the last manifest go on to the readiness wait
DeployNextResource ==
    /\ pc = "apply"
    /\ IF dIdx > Len(kubeResources)
         THEN /\ pc' = "wait"
              /\ UNCHANGED <<dIdx, dRes, retryVars>>
         ELSE IF HasNamespace(kubeResources[dIdx].text)
           THEN /\ dIdx' = dIdx + 1
                /\ UNCHANGED <<pc, dRes, retryVars>>
           ELSE /\ dRes' = TagSubstitution(kubeResources[dIdx].text, imageTag)
                /\ pc' = "applyRetry"
                /\ RetryEnter(KubeAttempts, DeploySleep)
                /\ UNCHANGED dIdx
    /\ UNCHANGED <<flow, bundle, kubeResources, imageTag, trace,
                   deploymentLabels, expectedPods, dRet>>
    /\ UNCHANGED <<ctxDone, extVars, waitVars, cleanVars>>

\* if err != nil { return fmt.Errorf("failed to deploy resources after retries: %v", err) }
DeployResourceReturns ==
    /\ pc = "applyRetry"
    /\ rPc = "done"
    /\ pc' = AfterStep(rRet.kind = "nil", "apply")
    /\ dRet' = IF pc' = "done" THEN "err" ELSE dRet
    /\ dIdx' = dIdx + 1
    /\ RetryLeave
    /\ UNCHANGED <<flow, bundle, kubeResources, imageTag, dRes, trace,
                   deploymentLabels, expectedPods>>
    /\ UNCHANGED <<ctxDone, extVars, waitVars, cleanVars>>

\* s.KubeClient.WaitForPodsRunning(data.ctx, data.namespace, deploymentLabels, expectedPods)
DeployWait ==
    /\ pc = "wait"
    /\ pc' = "waiting"
    /\ trace' = Append(trace, Event("wait", 0, TRUE, <<>>))
    /\ WaitEnter(deploymentLabels, expectedPods)
    /\ UNCHANGED <<flow, bundle, kubeResources, imageTag, dIdx, dRes,
                   deploymentLabels, expectedPods, dRet>>
    /\ UNCHANGED <<ctxDone, extVars, retryVars, cleanVars>>

DeployWaitPolls ==
    /\ pc = "waiting"
    /\ WaitPoll
    /\ UNCHANGED <<ctxDone, extVars, retryVars, cleanVars, deployVars>>

DeployWaitTicks ==
    /\ pc = "waiting"
    /\ WaitTick
    /\ UNCHANGED <<ctxDone, extVars, retryVars, cleanVars, deployVars>>

\* WaitForPodsRunning returned.  On an error the run returns it.  On nil
\* the issue-comment run returns nil and the merge run goes on to
\* s.pullRequestEventCleanup(data)
DeployWaitReturns ==
    /\ pc = "waiting"
    /\ wPc = "done"
    /\ IF wRet # "nil"
         THEN pc' = "done" /\ dRet' = "err" /\ UNCHANGED cleanVars
         ELSE IF flow = "issue"
           THEN pc' = "done" /\ dRet' = "nil" /\ UNCHANGED cleanVars
           ELSE pc' = "cleanup" /\ dRet' = dRet /\ CleanEnter("pr")
    /\ wPc' = "idle"
    /\ wLabels' = "empty"
    /\ wExpected' = 0
    /\ wPods' = <<>>
    /\ wRet' = "none"
    /\ UNCHANGED <<flow, bundle, kubeResources, imageTag, dIdx, dRes, trace,
                   deploymentLabels, expectedPods>>
    /\ UNCHANGED <<ctxDone, extVars, retryVars>>

-----------------------------------------------------------------------------
(***************************************************************************)
(* The cluster client: KubeClient.Deploy and KubeClient.Delete, with the   *)
(* resources the cluster holds.  One name per kind is in play (the name    *)
(* the manifest carries), so the cluster maps a kind to what is stored.    *)
(* An image reference is a sequence of words; strings.Contains(image, tag) *)
(* is "the word tag occurs".                                               *)
(***************************************************************************)
\* the cases of getResource, handleDeployResource and handleDeleteResource
SupportedKinds == {"Deployment", "Namespace", "ConfigMap", "Service", "Ingress"}

\* a kind the deserializer decodes and the three switches have no case for
OtherKind == "Pod"

\* the imageTag handed to Deploy
DeployTag == "test"

\* nothing is stored under the name
Absent == [exists |-> FALSE, image |-> <<>>, restartedAt |-> 0]

\* the manifests handed to Deploy and Delete: one of each kind (three
\* workloads: the first container's image has the tag, or another one, or
\* the pod template lists no container and image is empty) and a text the
\* deserializer rejects
ClusterManifests ==
    {[decodes |-> TRUE, kind |-> k, image |-> <<>>] :
        k \in (SupportedKinds \ {"Deployment"}) \cup {OtherKind}}
    \cup {[decodes |-> TRUE, kind |-> "Deployment", image |-> i] :
            i \in {<<"nginx", "test">>, <<"nginx", "stable">>, <<>>}}
    \cup {[decodes |-> FALSE, kind |-> "", image |-> <<>>]}

\* the object a manifest decodes to
Decoded(m) == [exists |-> TRUE, image |-> m.image, restartedAt |-> 0]

\* strings.Contains(currentImage, imageTag)
ImageContains(image, tag) == tag \in Range(image)

\* triggerRollingRestart(obj, imageTag): a workload whose image contains the
\* tag gets the annotation kubectl.kubernetes.io/restartedAt = time.Now()
TriggerRollingRestart(m, tag, now) ==
    IF m.kind = "Deployment" /\ ImageContains(m.image, tag)
      THEN [Decoded(m) EXCEPT !.restartedAt = now]
      ELSE Decoded(m)

\* a getResource whose switch answers not-found for a kind it has no case for
GetResourceAnyKind(c, m, served) ==
    IF m.kind \notin SupportedKinds THEN "notFound"
    ELSE IF ~served THEN "error"
    ELSE IF c[m.kind].exists THEN "found"
    ELSE "notFound"

\* getResource: the GET by name, as the cluster answers it when it serves
\* the call (served) or fails it; a kind without a case is an error and no
\* call
GetResource(c, m, served) ==
    IF m.kind \notin SupportedKinds THEN "error"
    ELSE IF ~served THEN "error"
    ELSE IF c[m.kind].exists THEN "found"
    ELSE "notFound"

CallsOf(m, verbs) == [k \in 1..Len(verbs) |-> [verb |-> verbs[k], kind |-> m.kind]]

ApiCalls(m, verbs) == IF m.kind \in SupportedKinds THEN CallsOf(m, verbs) ELSE <<>>

\* obj.Spec.Template.Spec.Containers[0] of a workload without containers:
\* index out of range
RestartPanics(m) == m.kind = "Deployment" /\ m.image = <<>>

\* if errors.IsNotFound(err) { create } else { update }
Creates(get) == get = "notFound"

\* KubeClient.Deploy: decode, GET, then create or update
DeployResult(c, m, tag, served, mutated, now) ==
    IF ~m.decodes
      THEN [get |-> "none", calls |-> <<>>, ret |-> "decodeErr", after |-> c]
    ELSE IF GetResource(c, m, served) = "error"
      THEN [get |-> "error", calls |-> ApiCalls(m, <<"get">>), ret |-> "getErr",
            after |-> c]
    ELSE IF Creates(GetResource(c, m, served))
      THEN [get |-> "notFound", calls |-> ApiCalls(m, <<"get", "create">>),
            ret |-> IF mutated THEN "nil" ELSE "mutateErr",
            after |-> IF mutated THEN [c EXCEPT ![m.kind] = Decoded(m)] ELSE c]
    ELSE IF RestartPanics(m)
      THEN [get |-> "found", calls |-> ApiCalls(m, <<"get">>), ret |-> "panic",
            after |-> c]
    ELSE [get |-> "found", calls |-> ApiCalls(m, <<"get", "update">>),
          ret |-> IF mutated THEN "nil" ELSE "mutateErr",
          after |-> IF mutated
                      THEN [c EXCEPT ![m.kind] = TriggerRollingRestart(m, tag, now)]
                      ELSE c]

\* if errors.IsNotFound(err) { return nil }
SkipsDeleteNever(get) == FALSE
SkipsDelete(get) == get = "notFound"

\* KubeClient.Delete: decode, GET, then delete unless not found
DeleteResult(c, m, served, mutated) ==
    IF ~m.decodes
      THEN [get |-> "none", calls |-> <<>>, ret |-> "decodeErr", after |-> c]
    ELSE IF GetResource(c, m, served) = "error"
      THEN [get |-> "error", calls |-> ApiCalls(m, <<"get">>), ret |-> "getErr",
            after |-> c]
    ELSE IF SkipsDelete(GetResource(c, m, served))
      THEN [get |-> "notFound", calls |-> ApiCalls(m, <<"get">>), ret |-> "nil",
            after |-> c]
    ELSE [get |-> "found", calls |-> ApiCalls(m, <<"get", "delete">>),
          ret |-> IF mutated THEN "nil" ELSE "mutateErr",
          after |-> IF mutated THEN [c EXCEPT ![m.kind] = Absent] ELSE c]

\* one entry of the call history
Done(op, m, r) ==
    [op |-> op, m |-> m, get |-> r.get, calls |-> r.calls, ret |-> r.ret,
     before |-> cluster, after |-> r.after]

ClusterIdle ==
    /\ cluster = [k \in SupportedKinds |-> Absent]
    /\ clock = 1
    /\ kHist = <<>>

\* a call of Deploy, whatever the cluster API does with the GET and with
\* the mutation
KubeDeploy ==
    /\ Len(kHist) < MaxOps
    /\ \E m \in ClusterManifests, served \in BOOLEAN, mutated \in BOOLEAN :
         LET r == DeployResult(cluster, m, DeployTag, served, mutated, clock)
         IN /\ cluster' = r.after
            /\ kHist' = Append(kHist, Done("Deploy", m, r))
    /\ clock' = clock + 1

\* a call of Delete
KubeDelete ==
    /\ Len(kHist) < MaxOps
    /\ \E m \in ClusterManifests, served \in BOOLEAN, mutated \in BOOLEAN :
         LET r == DeleteResult(cluster, m, served, mutated)
         IN /\ cluster' = r.after
            /\ kHist' = Append(kHist, Done("Delete", m, r))
    /\ clock' = clock + 1

-----------------------------------------------------------------------------
(***************************************************************************)
(* The remote image versions: GithubClient.DeletePackageImage and the      *)
(* package's versions on the registry.  The listing and the delete by id   *)
(* are two calls of the registry API; two callers may be at them at the    *)
(* same time.                                                              *)
(***************************************************************************)
\* the tags in play: a commit's short SHA and "latest"
PackageTags == {"abcdef1", "latest"}

\* the goroutines that may be in DeletePackageImage at one time
Callers == {1, 2}

\* the version lists the registry can hold: ids are unique, a version
\* carries any set of tags
Registries ==
    UNION {{[k \in 1..n |-> [id |-> k, tags |-> f[k]]] :
              f \in [1..n -> SUBSET PackageTags]} : n \in 0..MaxVersions}

\* for _, t := range pv.GetMetadata().GetContainer().Tags { if t == tag
Carries(v, tag) == tag \in v.tags

\* for _, pv := range packageVersions: the first version that carries the
\* tag, 0 when none does
LastTagged(vs, tag) ==
    IF \E k \in 1..Len(vs) : Carries(vs[k], tag)
      THEN CHOOSE k \in 1..Len(vs) :
             /\ Carries(vs[k], tag)
             /\ \A j \in (k + 1)..Len(vs) : ~Carries(vs[j], tag)
      ELSE 0
FirstTagged(vs, tag) ==
    IF \E k \in 1..Len(vs) : Carries(vs[k], tag)
      THEN CHOOSE k \in 1..Len(vs) :
             /\ Carries(vs[k], tag)
             /\ \A j \in 1..(k - 1) : ~Carries(vs[j], tag)
      ELSE 0

\* the registry without the version of the given id
WithoutId(vs, id) == SelectSeq(vs, LAMBDA v : v.id # id)

HasId(vs, id) == \E k \in 1..Len(vs) : vs[k].id = id

\* the id DeletePackageImage asks to delete, from the listing it got
TargetId(seen, tag) == seen[FirstTagged(seen, tag)].id

PackageIdle ==
    /\ registry = <<>>
    /\ pPc = [c \in Callers |-> "idle"]
    /\ pTag = [c \in Callers |-> "latest"]
    /\ pSeen = [c \in Callers |-> <<>>]
    /\ pCalls = [c \in Callers |-> <<>>]
    /\ pRet = [c \in Callers |-> "none"]

\* g.Client.Users.PackageGetAllVersions(...), and the search of the
\* listing: without a match the call returns "package ... not found"
PkgList(c) ==
    /\ pPc[c] = "list"
    /\ \E listed \in BOOLEAN :
         IF ~listed
           THEN /\ pRet' = [pRet EXCEPT ![c] = "listErr"]
                /\ pPc' = [pPc EXCEPT ![c] = "done"]
                /\ UNCHANGED pSeen
           ELSE /\ pSeen' = [pSeen EXCEPT ![c] = registry]
                /\ IF FirstTagged(registry, pTag[c]) = 0
                     THEN /\ pRet' = [pRet EXCEPT ![c] = "notFoundErr"]
                          /\ pPc' = [pPc EXCEPT ![c] = "done"]
                     ELSE /\ pPc' = [pPc EXCEPT ![c] = "delete"]
                          /\ UNCHANGED pRet
    /\ UNCHANGED <<registry, pTag, pCalls>>

\* g.Client.Users.PackageDeleteVersion(..., pv.GetID()): the registry
\* answers 404 for an id it no longer holds, and may fail otherwise
PkgDeleteVersion(c) ==
    /\ pPc[c] = "delete"
    /\ pCalls' = [pCalls EXCEPT ![c] = Append(@, TargetId(pSeen[c], pTag[c]))]
    /\ pPc' = [pPc EXCEPT ![c] = "done"]
    /\ \E served \in BOOLEAN :
         IF served /\ HasId(registry, TargetId(pSeen[c], pTag[c]))
           THEN /\ registry' = WithoutId(registry, TargetId(pSeen[c], pTag[c]))
                /\ pRet' = [pRet EXCEPT ![c] = "nil"]
           ELSE /\ UNCHANGED registry
                /\ pRet' = [pRet EXCEPT ![c] = "deleteErr"]
    /\ UNCHANGED <<pTag, pSeen>>

-----------------------------------------------------------------------------
(***************************************************************************)
(* What the units of the issue-comment cleanup delete: the local image     *)
(* (DockerClient.ImageDelete), the cluster resources of the rendered       *)
(* bundle (KubeClient.Delete under the Retry Driver), the local source     *)
(* tree (GithubClient.DeleteLocalRepository) and the remote image version  *)
(* (GithubClient.DeletePackageImage).  The collaborators answer without    *)
(* failures of their own here: a unit fails only on what it finds absent.  *)
(***************************************************************************)
\* data.imageTag of the identity: the first 7 characters of the head SHA
CleanupTag == "abcdef1"

\* the bundle handed to cleanupKubeResources: one manifest of every kind
CleanupBundle ==
    <<[decodes |-> TRUE, kind |-> "Namespace", image |-> <<>>],
      [decodes |-> TRUE, kind |-> "Deployment", image |-> <<"nginx", "stable">>],
      [decodes |-> TRUE, kind |-> "Service", image |-> <<>>],
      [decodes |-> TRUE, kind |-> "ConfigMap", image |-> <<>>],
      [decodes |-> TRUE, kind |-> "Ingress", image |-> <<>>]>>

\* for _, res := range *kubeResources { Delete(...); if err != nil { return } }
RECURSIVE DeleteAll(_, _)
DeleteAll(c, ms) ==
    IF ms = <<>>
      THEN [ret |-> "nil", after |-> c]
      ELSE LET r == DeleteResult(c, Head(ms), TRUE, TRUE)
           IN IF r.ret # "nil"
                THEN [ret |-> r.ret, after |-> r.after]
                ELSE DeleteAll(r.after, Tail(ms))

\* what a unit can come to, with the state it leaves behind
UnitEffect(ok, image, cl, repo, reg) ==
    [ok |-> ok, localImage |-> image, cluster |-> cl, localRepo |-> repo,
     registry |-> reg]

\* DeleteLocalRepository: os.Stat, and os.RemoveAll unless the path does
\* not exist; nil in both cases
RepoEffect == {UnitEffect(TRUE, localImage, cluster, FALSE, registry)}

\* DeletePackageImage for the identity's tag: "not found" is an error
PackageEffect ==
    IF FirstTagged(registry, CleanupTag) = 0
      THEN {UnitEffect(FALSE, localImage, cluster, localRepo, registry)}
      ELSE {UnitEffect(TRUE, localImage, cluster, localRepo,
                       WithoutId(registry, TargetId(registry, CleanupTag)))}

\* ImageDelete: d.Client.ImageRemove and the prune; what the daemon answers
\* for an image it does not hold is not decided by this code
ImageEffect ==
    IF localImage
      THEN {UnitEffect(TRUE, FALSE, cluster, localRepo, registry)}
      ELSE {UnitEffect(o, FALSE, cluster, localRepo, registry) : o \in BOOLEAN}

\* cleanupKubeResources: Delete of every manifest of the bundle
KubeEffect ==
    {UnitEffect(DeleteAll(cluster, CleanupBundle).ret = "nil", localImage,
                DeleteAll(cluster, CleanupBundle).after, localRepo, registry)}

EffectsOf(u) ==
    CASE u = "image" -> ImageEffect
      [] u = "kube" -> KubeEffect
      [] u = "repo" -> RepoEffect
      [] u = "package" -> PackageEffect

\* the terminal state a cleanup leaves
Terminal ==
    [localImage |-> localImage, cluster |-> cluster, localRepo |-> localRepo,
     registry |-> registry]

NoFirst == [ret |-> "none", terminal |-> <<>>]

EnvIdle ==
    /\ run = 0
    /\ localImage = FALSE
    /\ localRepo = FALSE
    /\ first = NoFirst

\* a unit's operation runs against what is there
UnitRunEnv(u) ==
    /\ ~panicked
    /\ unit[u] = "running"
    /\ \E e \in EffectsOf(u) :
         /\ outcome' = [outcome EXCEPT ![u] = IF e.ok THEN "ok" ELSE "failed"]
         /\ unit' = [unit EXCEPT ![u] = IF e.ok THEN "exiting" ELSE "sending"]
         /\ localImage' = e.localImage
         /\ cluster' = e.cluster
         /\ localRepo' = e.localRepo
         /\ registry' = e.registry
    /\ UNCHANGED <<cFlow, mPc, mNext, closerPc, wg, chanClosed, errs, cRet, panicked>>
    /\ UNCHANGED <<run, first, clock, kHist, pPc, pTag, pSeen, pCalls, pRet, eventVars>>

\* the first cleanup has returned and its goroutines are gone; the comment
\* event arrives again: handleIssueCommentEvent downloads the tree, renders
\* the same bundle and calls issueCommentEventCleanup
CleanAgain ==
    /\ run = 1
    /\ cFlow = "issue"
    /\ ~panicked
    /\ mPc = "returned"
    /\ closerPc = "closed"
    /\ \A u \in FlowUnits : unit[u] = "done"
    /\ run' = 2
    /\ first' = [ret |-> cRet, terminal |-> Terminal]
    /\ localRepo' = TRUE
    /\ CleanEnter("issue")
    /\ UNCHANGED <<localImage, clusterVars, pkgVars, eventVars>>

-----------------------------------------------------------------------------
(***************************************************************************)
(* Event processing: WebhookHandler's goroutine, Server.processWebhookEvents,*)
(* Server.handleIssueCommentEvent and Server.handlePullRequestEvent, with  *)
(* every collaborator they invoke recorded in effects.  A collaborator     *)
(* either succeeds or fails.  A comment body is a sequence of words;       *)
(* strings.Contains(body, "deploy dev") is "the word deploy is followed by *)
(* the word dev".                                                          *)
(***************************************************************************)
\* the label handlePullRequestEvent compares with
HardCodedLabel == "deploy-api-test"

\* the values github.prDeployLabel is configured with
ConfiguredLabels == {"deploy-test-hono", "deploy-api-test"}

LabelNames == {"deploy-api-test", "deploy-test-hono", "bug"}

LabelLists == UNION {[1..n -> LabelNames] : n \in 0..MaxLabels}

Bodies ==
    {<<"deploy", "dev">>, <<"please", "deploy", "dev", "now">>,
     <<"deploy", "to", "dev">>, <<"Vercel", "for", "Git">>, <<>>}

NoEvent ==
    [type |-> "none", isPR |-> FALSE, body |-> <<>>, action |-> "",
     baseRef |-> "", merged |-> FALSE, labels |-> <<>>]

\* what github.ParseWebHook can hand to processWebhookEvents: a hook, an
\* issue comment, a pull request, or an event of another type (a push, a
\* ping)
Events ==
    {[NoEvent EXCEPT !.type = "hook"], [NoEvent EXCEPT !.type = "other"]}
    \cup {[NoEvent EXCEPT !.type = "issue_comment", !.isPR = p, !.body = b,
                          !.action = a] :
            p \in BOOLEAN, b \in Bodies, a \in {"created", "edited", "deleted"}}
    \cup {[NoEvent EXCEPT !.type = "pull_request", !.baseRef = r, !.action = a,
                          !.merged = m, !.labels = l] :
            r \in {"main", "dev"}, a \in {"closed", "opened"}, m \in BOOLEAN,
            l \in LabelLists}

\* strings.Contains(commentBody, "deploy dev")
HasDeployDev(body) ==
    \E k \in 1..(Len(body) - 1) : body[k] = "deploy" /\ body[k + 1] = "dev"

\* isPullRequest && strings.Contains(commentBody, "deploy dev")
CommentTriggers(e) == e.isPR /\ HasDeployDev(e.body)

\* baseRef == "main" && action == "closed" && isMerged
MergedToMain(e) == e.baseRef = "main" /\ e.action = "closed" /\ e.merged

\* if event.GetAction() == "deleted" { cleanup } else { deploy }
RouteAlwaysDeploy(action) == "deploy"
RouteOf(action) == IF action = "deleted" THEN "cleanup" ELSE "deploy"

\* issueCommentEventDeploy / pullRequestEventDeploy: handleContainerization
\* (ImageBuild, ImagePush), then deployKubeResources (namespace apply,
\* TriggerWorkFlow, apply of the rest, WaitForPodsRunning)
DeploySteps == <<"build", "push", "apply", "workflow", "apply", "wait">>

\* the units of the cleanup a flow runs
CleanupUnits(t) ==
    IF t = "issue_comment"
      THEN {"imageDelete", "kubeDelete", "repoDelete", "packageDelete"}
      ELSE {"imageDelete", "repoDelete"}

EventIdle ==
    /\ event = NoEvent
    /\ cfgLabel = "deploy-test-hono"
    /\ ePc = "idle"
    /\ route = "none"
    /\ effects = <<>>
    /\ failed = FALSE
    /\ lIdx = 0
    /\ sIdx = 0
    /\ pending = {}
    /\ eRet = "none"
    /\ telemetry = <<>>

\* util.NotifyLog: n informational entries
Info(tel, n) == tel \o [k \in 1..n |-> "info"]

\* retryKubeResources: util.NotifyWarning at each failed attempt, w of them
\* before a success, and util.NotifyError once the attempts are used up
DriverEntries(tel, ok, w) ==
    tel \o [k \in 1..(IF ok THEN w ELSE KubeAttempts) |-> "warning"]
        \o (IF ok THEN <<>> ELSE <<"error">>)

\* processWebhookEvents returns after the entries tel; on an error
\* WebhookHandler's goroutine logs it and calls util.NotifyError(err)
FinishAfter(ret, tel) ==
    /\ ePc' = "done"
    /\ eRet' = ret
    /\ telemetry' = IF ret = "err" THEN Append(tel, "error") ELSE tel

Finish(ret) == FinishAfter(ret, telemetry)

\* processWebhookEvents' type switch and the predicate of the handler it
\* calls
EvReceive ==
    /\ ePc = "recv"
    /\ CASE event.type = "hook" ->
              /\ Finish("nil")
              /\ UNCHANGED <<lIdx>>
         [] event.type = "other" ->
              /\ Finish("err")
              /\ UNCHANGED <<lIdx>>
         [] event.type = "issue_comment" ->
              IF CommentTriggers(event)
                THEN /\ ePc' = "lookup"
                     /\ UNCHANGED <<eRet, telemetry, lIdx>>
                ELSE /\ FinishAfter("nil", Info(telemetry, 1))
                     /\ UNCHANGED lIdx
         [] event.type = "pull_request" ->
              IF MergedToMain(event)
                THEN /\ ePc' = "labels"
                     /\ lIdx' = 1
                     /\ telemetry' = Info(telemetry, 1)
                     /\ UNCHANGED eRet
                ELSE /\ Finish("nil")
                     /\ UNCHANGED lIdx
    /\ UNCHANGED <<event, cfgLabel, route, effects, failed, sIdx, pending>>

\* a collaborator is invoked and succeeds or fails; on a failure the
\* handler returns an internal server error
Invoke(name, next) ==
    /\ effects' = Append(effects, name)
    /\ \E ok \in BOOLEAN :
         IF ok
           THEN /\ ePc' = next
                /\ UNCHANGED <<eRet, telemetry>>
           ELSE Finish("err")

\* extractEventData for an issue comment: s.GithubClient.GetPullRequest
EvLookup ==
    /\ ePc = "lookup"
    /\ Invoke("lookup", "acquire")
    /\ UNCHANGED <<event, cfgLabel, route, failed, lIdx, sIdx, pending>>

\* for _, label := range event.GetPullRequest().Labels {
\*     if label.GetName() == "deploy-api-test" { ...; break } }
EvNextLabel ==
    /\ ePc = "labels"
    /\ IF lIdx > Len(event.labels)
         THEN /\ Finish("nil")
              /\ UNCHANGED lIdx
         ELSE IF event.labels[lIdx] = HardCodedLabel
           THEN /\ ePc' = "acquire"
                /\ UNCHANGED <<lIdx, eRet, telemetry>>
           ELSE /\ lIdx' = lIdx + 1
                /\ UNCHANGED <<ePc, eRet, telemetry>>
    /\ UNCHANGED <<event, cfgLabel, route, effects, failed, sIdx, pending>>

\* s.getGithubRepo(data.ghRepoFullName, data.ghBranch)
EvAcquire ==
    /\ ePc = "acquire"
    /\ Invoke("acquire", "render")
    /\ UNCHANGED <<event, cfgLabel, route, failed, lIdx, sIdx, pending>>

\* s.handleKustomization(data.namespace), and the choice of the flow
EvRender ==
    /\ ePc = "render"
    /\ effects' = Append(effects, "render")
    /\ \E ok \in BOOLEAN :
         IF ~ok
           THEN /\ Finish("err")
                /\ UNCHANGED <<route, sIdx, pending>>
           ELSE LET r == IF event.type = "issue_comment"
                           THEN RouteOf(event.action) ELSE "deploy"
                IN /\ route' = r
                   /\ ePc' = r
                   /\ sIdx' = IF r = "deploy" THEN 1 ELSE sIdx
                   /\ pending' = IF r = "cleanup" THEN CleanupUnits(event.type) ELSE pending
                   /\ telemetry' = Info(telemetry,
                                         IF event.type = "issue_comment" THEN 1 ELSE 0)
                   /\ UNCHANGED eRet
    /\ UNCHANGED <<event, cfgLabel, failed, lIdx>>

\* the next step of the deploy flow, with the entries util.NotifyLog sends
\* before the build, after the push and after the last apply, and those of
\* the Retry Driver around an apply; after the last step the comment flow
\* returns nil and the merge flow goes on to pullRequestEventCleanup
EvDeployStep ==
    /\ ePc = "deploy"
    /\ effects' = Append(effects, DeploySteps[sIdx])
    /\ \E ok \in BOOLEAN, w \in 0..(KubeAttempts - 1) :
         LET before == Info(telemetry, IF sIdx = 1 THEN 1 ELSE 0)
             driven == IF DeploySteps[sIdx] = "apply"
                         THEN DriverEntries(before, ok, w) ELSE before
             after  == Info(driven, CASE sIdx = 2 -> 2 [] sIdx = 5 -> 1 [] OTHER -> 0)
         IN /\ DeploySteps[sIdx] # "apply" => w = 0
            /\ IF ~ok
                 THEN /\ FinishAfter("err", driven)
                      /\ UNCHANGED <<sIdx, pending>>
                 ELSE IF sIdx < Len(DeploySteps)
                   THEN /\ sIdx' = sIdx + 1
                        /\ telemetry' = after
                        /\ UNCHANGED <<ePc, eRet, pending>>
                 ELSE IF event.type = "issue_comment"
                   THEN /\ FinishAfter("nil", after)
                        /\ UNCHANGED <<sIdx, pending>>
                 ELSE /\ ePc' = "cleanup"
                      /\ pending' = CleanupUnits(event.type)
                      /\ telemetry' = after
                      /\ UNCHANGED <<sIdx, eRet>>
    /\ UNCHANGED <<event, cfgLabel, route, failed, lIdx>>

\* one unit of the cleanup runs, in any order with the others; each unit
\* announces itself with util.NotifyLog, and the cluster unit deletes under
\* the Retry Driver
EvCleanupUnit ==
    /\ ePc = "cleanup"
    /\ \E u \in pending, ok \in BOOLEAN, w \in 0..(KubeAttempts - 1) :
         /\ u # "kubeDelete" => w = 0
         /\ effects' = Append(effects, u)
         /\ pending' = pending \ {u}
         /\ failed' = (failed \/ ~ok)
         /\ telemetry' =
              LET said == Info(telemetry, 1)
              IN IF u = "kubeDelete" THEN DriverEntries(said, ok, w) ELSE said
    /\ UNCHANGED <<event, cfgLabel, ePc, route, lIdx, sIdx, eRet>>

\* collectCleanupErrors returned: nil, or the composite error, which the
\* handler returns as an internal server error
EvCleanupReturns ==
    /\ ePc = "cleanup"
    /\ pending = {}
    /\ Finish(IF failed THEN "err" ELSE "nil")
    /\ UNCHANGED <<event, cfgLabel, route, effects, failed, lIdx, sIdx, pending>>

-----------------------------------------------------------------------------
(***************************************************************************)
(* Identity extraction: Server.extractEventData and Server.getImageName.   *)
(* A string is a sequence of characters (a commit identifier) or of tokens *)
(* (every other string); fmt.Sprintf is the concatenation of its parts.    *)
(***************************************************************************)
ShaChars == {"a", "1"}

\* the commit identifiers a pull request's head carries: at least TagLen
\* characters
Shas == UNION {[1..n -> ShaChars] : n \in TagLen..MaxSha}

\* container.imageSuffix and github.workflowPrefix as configured
Suffixes == {<<>>, <<"api">>}

Prefixes == {<<"deploy">>, <<"deploy", "-", "secrets">>}

\* what extractEventData is called with: the event, the pull request the
\* forge returns for it (or the failure of the lookup), and the options
IdentityInputs ==
    [type : {"issue_comment", "pull_request"},
     sha : Shas,
     headRef : {<<"feature">>, <<"fix", "/", "login">>},
     baseRef : {<<"main">>},
     lookupOk : BOOLEAN,
     suffix : Suffixes,
     prefix : Prefixes]

RepoFullName == <<"uib-ub", "/", "hono-api">>

RepoName == <<"hono-api">>

\* s.Options.DevNamespace for a comment, s.Options.TestNamespace for a merge
NamespaceOf(type) == IF type = "issue_comment" THEN <<"dev">> ELSE <<"test">>

\* pr.GetHead().GetSHA()[:7]
ShortShaWhole(sha) == sha
ShortSha(sha) == SubSeq(sha, 1, TagLen)

\* fmt.Sprintf("%s-%s.yaml", s.Options.WFPrefix, namespace)
WorkFlowFile(prefix, namespace) == prefix \o <<"-">> \o namespace \o <<".yaml">>

\* Server.getImageName
GetImageName(repoFullName, suffix) ==
    IF suffix # <<>> THEN repoFullName \o <<"-">> \o suffix ELSE repoFullName

NoData == [err |-> "none"]

\* Server.extractEventData: the eventData it returns, or its error
ExtractEventData(in) ==
    LET ns == NamespaceOf(in.type)
        common == [err |-> "nil",
                   namespace |-> ns,
                   ghWorkFlowFile |-> WorkFlowFile(in.prefix, ns),
                   ghRepoFullName |-> RepoFullName,
                   imageName |-> GetImageName(RepoFullName, in.suffix)]
    IN IF in.type = "issue_comment"
         THEN IF ~in.lookupOk
                THEN [err |-> "lookupErr"]
                ELSE common @@ [ghRepoName |-> RepoName,
                                ghBranch |-> in.headRef,
                                imageTag |-> ShortSha(in.sha)]
         ELSE common @@ [ghRepoName |-> <<>>,
                         ghBranch |-> in.baseRef,
                         imageTag |-> <<"latest">>]

IdentityIdle ==
    /\ idIn = [type |-> "none"]
    /\ data = NoData

\* a handler calls extractEventData
IdExtract ==
    /\ data = NoData
    /\ data' = ExtractEventData(idIn)
    /\ UNCHANGED idIn

-----------------------------------------------------------------------------
(***************************************************************************)
(* The Workflow Trigger: GithubClient.TriggerWorkFlow,                     *)
(* waitForWorkflowCompletion, handleWorkflowConclusion, workflowFinalCheck *)
(* and getLatestWorkflowRunStatus.  Each status query answers with what    *)
(* the forge holds at that moment: the latest run of the workflow file on  *)
(* the branch, no run at all, or an error; each query takes some time.     *)
(***************************************************************************)
Conclusions ==
    {"success", "failure", "neutral", "cancelled", "timed_out", "action_required",
     "skipped"}

\* what getLatestWorkflowRunStatus returns
Observations ==
    {[err |-> "apiErr", status |-> "", conclusion |-> ""],
     [err |-> "noRuns", status |-> "", conclusion |-> ""],
     [err |-> "nil", status |-> "queued", conclusion |-> ""],
     [err |-> "nil", status |-> "in_progress", conclusion |-> ""]}
    \cup {[err |-> "nil", status |-> "completed", conclusion |-> c] : c \in Conclusions}

\* what it can return when the forge lists run l first: "no workflow runs
\* found" when there is none, a status otherwise, an API error in any case
ObservationsOf(l) ==
    IF l = "none"
      THEN {obs \in Observations : obs.err # "nil"}
      ELSE {obs \in Observations : obs.err # "noRuns"}

\* the time one status query takes
Latencies == {0, MaxLatency}

\* handleWorkflowConclusion: nil, or the error it returns
HandleWorkflowConclusionLenient(conclusion) ==
    IF conclusion \in {"success", "neutral"} THEN "nil" ELSE "conclusionErr"
HandleWorkflowConclusion(conclusion) ==
    CASE conclusion = "success" -> "nil"
      [] conclusion = "failure" -> "failedErr"
      [] conclusion \in {"neutral", "cancelled", "timed_out", "action_required"} ->
           "endedErr"
      [] OTHER -> "unknownErr"

\* workflowFinalCheck, once the status query has answered
WorkflowFinalCheckNoTimeout(obs) ==
    IF obs.err # "nil" THEN "finalStatusErr" ELSE "nil"
WorkflowFinalCheck(obs) ==
    IF obs.err # "nil"
      THEN "finalStatusErr"
      ELSE IF obs.status = "completed"
        THEN CASE obs.conclusion = "success" -> "nil"
               [] obs.conclusion = "failure" -> "finalFailedErr"
               [] OTHER -> "finalEndedErr"
        ELSE "timeout"

\* if interval*2 < maxInterval { interval *= 2 } else { interval = maxInterval }
NextInterval(i) == IF i * 2 < WfMaxInterval THEN i * 2 ELSE WfMaxInterval

WorkflowIdle ==
    /\ wfPc = "idle"
    /\ interval = 0
    /\ elapsed = 0
    /\ wfLog = <<>>
    /\ wfRet = "none"
    /\ latest = "none"

WfReturn(ret) ==
    /\ wfPc' = "done"
    /\ wfRet' = ret

\* g.Client.Actions.CreateWorkflowDispatchEventByFileName, then the start
\* of waitForWorkflowCompletion
WfDispatch ==
    /\ wfPc = "dispatch"
    /\ \E ok \in BOOLEAN :
         /\ wfLog' = Append(wfLog, [ev |-> "dispatch", ok |-> ok])
         /\ IF ok
              THEN /\ wfPc' = "sleep"
                   /\ interval' = InitialInterval
                   /\ UNCHANGED wfRet
              ELSE /\ WfReturn("dispatchErr")
                   /\ UNCHANGED interval
    /\ UNCHANGED <<elapsed, latest>>

\* the forge creates the run the dispatch asked for, some time after it
\* accepted the request: from then on that run is listed first
WfRunAppears ==
    /\ wfPc \in {"sleep", "query", "final"}
    /\ latest # "own"
    /\ latest' = "own"
    /\ UNCHANGED <<wfPc, interval, elapsed, wfLog, wfRet>>

\* time.Sleep(interval)
WfSleep ==
    /\ wfPc = "sleep"
    /\ wfPc' = "query"
    /\ elapsed' = elapsed + interval
    /\ wfLog' = Append(wfLog, [ev |-> "sleep", d |-> interval])
    /\ UNCHANGED <<interval, wfRet, latest>>

\* one pass of the polling loop after the sleep: the status query, the
\* conclusion of a completed run, the test of the time cap and the next
\* interval
WfPoll ==
    /\ wfPc = "query"
    /\ \E obs \in ObservationsOf(latest), lat \in Latencies :
         /\ wfLog' = Append(wfLog, [ev |-> "poll", obs |-> obs, run |-> latest])
         /\ elapsed' = elapsed + lat
         /\ IF obs.err # "nil"
              THEN /\ WfReturn("statusErr")
                   /\ UNCHANGED interval
              ELSE IF obs.status = "completed"
                        /\ HandleWorkflowConclusion(obs.conclusion) # "nil"
                THEN /\ WfReturn(HandleWorkflowConclusion(obs.conclusion))
                     /\ UNCHANGED interval
              ELSE IF elapsed' >= MaxDuration
                THEN /\ wfPc' = "final"
                     /\ UNCHANGED <<interval, wfRet>>
              ELSE /\ wfPc' = "sleep"
                   /\ interval' = NextInterval(interval)
                   /\ UNCHANGED wfRet
    /\ UNCHANGED latest

\* workflowFinalCheck
WfFinalCheck ==
    /\ wfPc = "final"
    /\ \E obs \in ObservationsOf(latest) :
         /\ wfLog' = Append(wfLog, [ev |-> "final", obs |-> obs, run |-> latest])
         /\ WfReturn(WorkflowFinalCheck(obs))
    /\ UNCHANGED <<interval, elapsed, latest>>

-----------------------------------------------------------------------------
(***************************************************************************)
(* The pipeline runs of one Server.  WebhookHandler starts a goroutine per *)
(* event; every run works in the one directory Options.LocalRepoDir.       *)
(***************************************************************************)
Runs == 1..MaxRuns

\* the repository, the branch and the flow of a run's event: a comment on
\* a pull request of branch feat, a merge into main, a second repository
\* whose identity names no branch
Requests ==
    {[repo |-> "o/a", branch |-> "feat", flow |-> f] : f \in {"deploy", "cleanup"}}
    \cup {[repo |-> "o/a", branch |-> "main", flow |-> "merge"]}
    \cup {[repo |-> "o/b", branch |-> "", flow |-> "deploy"]}

\* the path holds no clone
NoTree == [repo |-> "", branch |-> ""]

NoRequest == [repo |-> "", branch |-> "", flow |-> "none"]

NoWrite ==
    [run |-> 0, op |-> "none", req |-> NoRequest, before |-> NoTree,
     after |-> NoTree, ret |-> "none", busy |-> {}]

\* if branchName == "" { branchName = "main" }
BranchOrMain(b) == IF b = "" THEN "main" ELSE b

\* a clone left at the path by "git clone -b branch url path"
Clone(req) == [repo |-> req.repo, branch |-> BranchOrMain(req.branch)]

\* DownloadGithubRepository: "git clone -b" when path/.git is absent, else
\* "git -C path pull", which updates the clone that is there on the branch
\* it is on; ok is whether the git command succeeds
Download(t, req, ok) ==
    IF t = NoTree
      THEN [op |-> "clone", ret |-> IF ok THEN "nil" ELSE "cloneErr",
            after |-> IF ok THEN Clone(req) ELSE t]
      ELSE [op |-> "pull", ret |-> IF ok THEN "nil" ELSE "pullErr", after |-> t]

\* the flows that build an image from the directory
Builds(f) == f \in {"deploy", "merge"}

\* the flows whose cleanup deletes the directory
DeletesTree(f) == f \in {"cleanup", "merge"}

\* run r is between its source acquisition and the end of its rendering
\* and image build
InWindow(r) ==
    \/ rnPc[r] = "acquired"
    \/ rnPc[r] = "rendered" /\ Builds(rnReq[r].flow)

\* the other runs that are in that window
BusyOthers(r) == {q \in Runs \ {r} : InWindow(q)}

RunsIdle ==
    /\ rnPc = [r \in Runs |-> "idle"]
    /\ rnReq = [r \in Runs |-> NoRequest]
    /\ tree = NoTree
    /\ lastWrite = NoWrite

\* go func(e any) { err := s.processWebhookEvents(e) ... }(event)
RunSpawn(r) ==
    /\ rnPc[r] = "idle"
    /\ \E req \in Requests : rnReq' = [rnReq EXCEPT ![r] = req]
    /\ rnPc' = [rnPc EXCEPT ![r] = "start"]
    /\ UNCHANGED <<tree, lastWrite>>

\* s.getGithubRepo(data.ghRepoFullName, data.ghBranch)
RunAcquire(r) ==
    /\ rnPc[r] = "start"
    /\ \E ok \in BOOLEAN :
         LET d == Download(tree, rnReq[r], ok)
         IN /\ tree' = d.after
            /\ lastWrite' = [run |-> r, op |-> d.op, req |-> rnReq[r],
                             before |-> tree, after |-> d.after, ret |-> d.ret,
                             busy |-> BusyOthers(r)]
            /\ rnPc' = [rnPc EXCEPT ![r] = IF d.ret = "nil" THEN "acquired"
                                                           ELSE "done"]
    /\ UNCHANGED rnReq

\* s.handleKustomization(data.namespace): kustomize build of a directory
\* under LocalRepoDir
RunRender(r) ==
    /\ rnPc[r] = "acquired"
    /\ rnPc' = [rnPc EXCEPT ![r] = IF tree = NoTree THEN "done" ELSE "rendered"]
    /\ UNCHANGED <<rnReq, tree, lastWrite>>

\* handleContainerization("deploy", ...): ImageBuild from LocalRepoDir, which
\* fails on a directory that is gone, and the rest of the deploy, which
\* does not touch the directory
RunBuild(r) ==
    /\ rnPc[r] = "rendered"
    /\ Builds(rnReq[r].flow)
    /\ rnPc' = [rnPc EXCEPT ![r] = IF tree # NoTree /\ DeletesTree(rnReq[r].flow)
                                     THEN "built" ELSE "done"]
    /\ UNCHANGED <<rnReq, tree, lastWrite>>

\* cleanupLocalRepository: DeleteLocalRepository(LocalRepoDir)
RunDeleteTree(r) ==
    /\ \/ rnPc[r] = "built"
       \/ rnPc[r] = "rendered" /\ ~Builds(rnReq[r].flow)
    /\ DeletesTree(rnReq[r].flow)
    /\ tree' = NoTree
    /\ lastWrite' = [run |-> r, op |-> "delete", req |-> rnReq[r],
                     before |-> tree, after |-> NoTree, ret |-> "nil",
                     busy |-> BusyOthers(r)]
    /\ rnPc' = [rnPc EXCEPT ![r] = "done"]
    /\ UNCHANGED rnReq

-----------------------------------------------------------------------------
(***************************************************************************)
(* The cluster-delete cleanup unit: Server.cleanupKubeResources, the loop  *)
(* over the bundle with each Delete under the Retry Driver.                *)
(***************************************************************************)
KcIdle ==
    /\ kcPc = "idle"
    /\ kcIdx = 1
    /\ kcTries = 0
    /\ kcLog = <<>>
    /\ kcRet = "none"

\* where the loop goes after the Retry Driver returned for manifest k:
\* if err != nil { errChan <- err; return }
KcAfter(k, err) ==
    IF err THEN [pc |-> "done", idx |-> k, ret |-> "err"]
    ELSE IF k = Len(CleanupBundle) THEN [pc |-> "done", idx |-> k, ret |-> "nil"]
    ELSE [pc |-> "run", idx |-> k + 1, ret |-> "none"]

\* one attempt of s.KubeClient.Delete under retryKubeResources(3, 5 s):
\* nil ends the driver, an error is retried until the attempts are used up
KcAttempt ==
    /\ kcPc = "run"
    /\ \E ok \in BOOLEAN :
         /\ kcLog' = Append(kcLog, [idx |-> kcIdx, ok |-> ok])
         /\ IF ~ok /\ kcTries + 1 < KubeAttempts
              THEN /\ kcTries' = kcTries + 1
                   /\ UNCHANGED <<kcPc, kcIdx, kcRet>>
              ELSE /\ kcTries' = 0
                   /\ kcPc' = KcAfter(kcIdx, ~ok).pc
                   /\ kcIdx' = KcAfter(kcIdx, ~ok).idx
                   /\ kcRet' = KcAfter(kcIdx, ~ok).ret

SideIdle == RunsIdle /\ KcIdle

\* the operations modelled on their own are at rest
AuxIdle ==
    /\ IdentityIdle
    /\ WorkflowIdle
    /\ SideIdle

-----------------------------------------------------------------------------
\* the components outside the four machines are at rest
ExtIdle ==
    /\ ClusterIdle
    /\ PackageIdle
    /\ EnvIdle
    /\ EventIdle
    /\ AuxIdle

-----------------------------------------------------------------------------
(***************************************************************************)
(* SpecRetry: one call of retryKubeResources with any attempt budget and   *)
(* one of the two initial delays the callers use.                          *)
(***************************************************************************)
\* the variables a call of retryKubeResources alone leaves as they are
FrameRetry == <<waitVars, cleanVars, deployVars, extVars>>

InitRetry ==
    /\ ctxDone = FALSE
    /\ ExtIdle
    /\ WaitIdle
    /\ CleanIdle
    /\ DeployIdle
    /\ \E a \in 1..MaxAttempts, s \in {CleanupSleep, DeploySleep} :
         /\ rAttempts = a
         /\ rInitial = s
         /\ rI = 0
         /\ rSleep = s
         /\ rErr = "nil"
         /\ rLog = <<>>
         /\ rRet = NoRet
         /\ rPc = IF LoopCond(0, a) THEN "call" ELSE "final"

RetryKubeFunc ==
    /\ \E out \in KubeOutcomes : RetryCall(out)
    /\ UNCHANGED <<ctxDone, FrameRetry>>

RetrySleepEnds ==
    /\ RetryTimer
    /\ UNCHANGED <<ctxDone, FrameRetry>>

RetryReturnsError ==
    /\ RetryFinal
    /\ UNCHANGED <<ctxDone, FrameRetry>>

RetryCtxFires ==
    /\ CtxFire
    /\ UNCHANGED FrameRetry

NextRetry ==
    \/ RetryKubeFunc
    \/ RetrySleepEnds
    \/ RetryReturnsError
    \/ RetryCtxFires

SpecRetry == InitRetry /\ [][NextRetry]_vars

-----------------------------------------------------------------------------
(***************************************************************************)
(* Properties of the Retry Driver (SpecRetry).                             *)
(***************************************************************************)
IsCall(e) == e.ev = "call"
IsSleep(e) == e.ev = "sleep"

\* the invocations of kubeFunc so far, and the sleeps completed so far
Calls == SelectSeq(rLog, IsCall)
Sleeps == SelectSeq(rLog, IsSleep)

\* C6: the unit is invoked at most maxAttempts times; nothing is invoked
\* after a successful invocation and the driver then returns nil at once;
\* when all maxAttempts invocations fail, the driver returns an error that
\* names the attempt count and carries the last error.
C6_RetryBudget ==
    /\ Len(Calls) <= rAttempts
    /\ \A k \in 1..(Len(Calls) - 1) : Calls[k].out # "nil"
    /\ (Len(Calls) > 0 /\ Calls[Len(Calls)].out = "nil")
          => (rPc = "done" /\ rRet.kind = "nil")
    /\ rPc = "done" =>
          \/ /\ rRet.kind = "nil"
             /\ Len(Calls) > 0
             /\ Calls[Len(Calls)].out = "nil"
          \/ /\ rRet.kind = "err"
             /\ Len(Calls) = rAttempts
             /\ \A k \in 1..Len(Calls) : Calls[k].out # "nil"
             /\ rRet.attempts = rAttempts
             /\ rRet.last = Calls[Len(Calls)].out

\* three attempts, all failed: "after 3 attempts, last error: ..."
C6_Witness ==
    /\ rPc = "done"
    /\ rRet.kind = "err"
    /\ rRet.attempts = 3
    /\ Len(Calls) = 3

\* C7: the k-th sleep lasts min(initialDelay * 2^(k-1), 30 s); a unit that
\* fails N < maxAttempts times and then succeeds costs exactly N sleeps;
\* when every attempt fails there are maxAttempts - 1 sleeps and none after
\* the last failure (10 s then 20 s for 3 attempts from 10 s).
C7_RetrySleeps ==
    /\ \A k \in 1..Len(Sleeps) : Sleeps[k].d = Min(rInitial * Pow2(k - 1), 30)
    /\ (rPc = "done" /\ rRet.kind = "nil") => Len(Sleeps) = Len(Calls) - 1
    /\ (rPc = "done" /\ rRet.kind = "err") => Len(Sleeps) = rAttempts - 1
    /\ (rPc = "done" /\ rRet.kind = "err" /\ rAttempts = 3 /\ rInitial = 10)
          => (Len(Sleeps) = 2 /\ Sleeps[1].d = 10 /\ Sleeps[2].d = 20)
    /\ (rLog # <<>> /\ rPc = "done") => rLog[Len(rLog)].ev # "sleep"

\* three failures, then success: sleeps of 10 s, 20 s and 30 s (the ceiling)
C7_Witness ==
    /\ rPc = "done"
    /\ rRet.kind = "nil"
    /\ rInitial = 10
    /\ Len(Calls) = 4
    /\ Len(Sleeps) = 3
    /\ Sleeps[3].d = 30

\* C8: once the caller's deadline has fired during a sleep, the unit is not
\* attempted again and the driver returns the deadline error.
C8_DeadlineEndsRetry ==
    /\ \A j \in 1..Len(rLog) : \A k \in (j + 1)..Len(rLog) :
          ~(rLog[j].ev = "deadline" /\ rLog[k].ev = "call")
    /\ (rPc = "done" /\ \E j \in 1..Len(rLog) : rLog[j].ev = "deadline")
          => rRet.kind = "cancelled"

\* C9: an attempt that fails with a cancellation / deadline-exceeded error
\* is the last attempt.
C9_CancellationNotRetried ==
    \A k \in 1..(Len(Calls) - 1) : Calls[k].out # "cancelled"

-----------------------------------------------------------------------------
(***************************************************************************)
(* SpecWait: one call of WaitForPodsRunning under a context that may be    *)
(* cancelled at any time.                                                  *)
(***************************************************************************)
FrameWait == <<retryVars, cleanVars, deployVars, extVars>>

InitWait ==
    /\ ctxDone = FALSE
    /\ ExtIdle
    /\ RetryIdle
    /\ CleanIdle
    /\ DeployIdle
    /\ \E labels \in LabelKinds, expected \in 0..MaxReplicas :
         /\ wPc = "poll"
         /\ wLabels = labels
         /\ wExpected = expected
         /\ wPods = <<>>
         /\ wRet = "none"

WaitListsPods ==
    /\ WaitPoll
    /\ UNCHANGED <<ctxDone, FrameWait>>

WaitSeesDeadline ==
    /\ WaitCtxDone
    /\ UNCHANGED <<ctxDone, FrameWait>>

WaitSeesTick ==
    /\ WaitTick
    /\ UNCHANGED <<ctxDone, FrameWait>>

WaitCtxFires ==
    /\ CtxFire
    /\ UNCHANGED <<waitVars, cleanVars, deployVars, extVars>>

NextWait ==
    \/ WaitListsPods
    \/ WaitSeesDeadline
    \/ WaitSeesTick
    \/ WaitCtxFires

SpecWait == InitWait /\ [][NextWait]_vars

-----------------------------------------------------------------------------
(***************************************************************************)
(* Properties of the Readiness Waiter (SpecWait).                          *)
(***************************************************************************)
\* every listed pod runs, at least one is listed, as many as expected
AllListedRun ==
    /\ Len(wPods) > 0
    /\ \A k \in 1..Len(wPods) : wPods[k] = "Running"
    /\ Len(wPods) = wExpected

\* C10: the waiter returns nil at a poll exactly when that poll's listing
\* has running > 0, running = listed and running = expectedReplicas; a poll
\* that lists a pod that is not running, or another count than expected,
\* does not return nil.
C10_ReadyIff ==
    /\ wRet = "nil" => AllListedRun
    /\ (wPc = "select" \/ wRet = "ctxErr") => ~AllListedRun
    /\ (wPc = "done" /\ wRet \notin {"selectorErr", "listErr", "ctxErr"})
          => wRet = "nil"

\* ok with two listed pods, both running, two expected
C10_Witness ==
    /\ wPc = "done"
    /\ wRet = "nil"
    /\ Len(wPods) = 2
    /\ wExpected = 2

\* C32: called with an empty or nil label map the waiter returns an error
\* at its first pass, because no selector can be built: it lists no pods
\* and does not wait for the deadline.
C32_EmptyLabelsIsError ==
    wLabels = "empty" =>
       /\ wPods = <<>>
       /\ wPc \in {"poll", "done"}
       /\ wPc = "done" => wRet = "selectorErr"

-----------------------------------------------------------------------------
(***************************************************************************)
(* SpecWaitLive: SpecWait with the scheduling the waiter's goroutine has.  *)
(* The goroutine runs on (the loop body is taken when it is at it), and a  *)
(* select that is reached again and again with ctx.Done() ready takes that *)
(* case: the runtime picks among the ready cases at random, and the ticker *)
(* is ready only once in 60 s.                                             *)
(***************************************************************************)
SpecWaitLive ==
    /\ SpecWait
    /\ WF_vars(WaitListsPods)
    /\ SF_vars(WaitSeesDeadline)

\* the waiter has returned nil or an error that is not the context's
ReturnedOtherwise == wRet \in {"nil", "selectorErr", "listErr"}

\* C11: when the readiness condition never becomes true and the listing
\* never fails, the waiter does not return before the deadline fires (it
\* goes on polling), and once the deadline has fired it returns the error
\* that wraps the context's error, and nothing else.
C11_DeadlineEndsWait ==
    /\ [](wRet = "ctxErr" => ctxDone)
    /\ []((wPc = "done" /\ ~ReturnedOtherwise) => wRet = "ctxErr")
    /\ ([]~ReturnedOtherwise) => (ctxDone ~> (wPc = "done" /\ wRet = "ctxErr"))

\* the deadline fired while one pending pod was listed for one expected,
\* and the waiter returned the context's error
C11_Witness ==
    /\ wPc = "done"
    /\ wRet = "ctxErr"
    /\ ctxDone
    /\ wExpected = 1
    /\ wPods = <<"Pending">>

-----------------------------------------------------------------------------
(***************************************************************************)
(* SpecCleanup: one call of issueCommentEventCleanup or of                 *)
(* pullRequestEventCleanup, under every schedule of its goroutines.        *)
(***************************************************************************)
FrameClean == <<ctxDone, retryVars, waitVars, deployVars, extVars>>

InitCleanup ==
    /\ ctxDone = FALSE
    /\ ExtIdle
    /\ RetryIdle
    /\ WaitIdle
    /\ DeployIdle
    /\ \E f \in {"issue", "pr"} :
         /\ cFlow = f
         /\ mPc = "closer"
         /\ mNext = 1
         /\ closerPc = "none"
         /\ wg = 0
         /\ chanClosed = FALSE
         /\ unit = [u \in AllUnits |-> "unspawned"]
         /\ outcome = [u \in AllUnits |-> "unknown"]
         /\ errs = <<>>
         /\ cRet = "none"
         /\ panicked = FALSE

CleanupGoCloser == MainGoCloser /\ UNCHANGED FrameClean

CleanupSpawn == MainSpawn /\ UNCHANGED FrameClean

CleanupCloserWait == CloserWait /\ UNCHANGED FrameClean

CleanupCloserResume == CloserResume /\ UNCHANGED FrameClean

CleanupCloserClose == CloserClose /\ UNCHANGED FrameClean

CleanupUnitRun == (\E u \in AllUnits : UnitRun(u)) /\ UNCHANGED FrameClean

CleanupUnitSendOnClosed ==
    (\E u \in AllUnits : UnitSendOnClosed(u)) /\ UNCHANGED FrameClean

CleanupUnitDone == (\E u \in AllUnits : UnitDone(u)) /\ UNCHANGED FrameClean

CleanupCollectRecv == (\E u \in AllUnits : CollectRecv(u)) /\ UNCHANGED FrameClean

CleanupCollectReturn == CollectReturn /\ UNCHANGED FrameClean

NextCleanup ==
    \/ CleanupGoCloser
    \/ CleanupSpawn
    \/ CleanupCloserWait
    \/ CleanupCloserResume
    \/ CleanupCloserClose
    \/ CleanupUnitRun
    \/ CleanupUnitSendOnClosed
    \/ CleanupUnitDone
    \/ CleanupCollectRecv
    \/ CleanupCollectReturn

SpecCleanup == InitCleanup /\ [][NextCleanup]_vars

-----------------------------------------------------------------------------
(***************************************************************************)
(* Properties of the cleanup fan-out (SpecCleanup).                        *)
(***************************************************************************)
FailedUnits == {u \in FlowUnits : outcome[u] = "failed"}

\* C3: errChan is closed only when every spawned unit has finished, and the
\* cleanup call returns only when all units of the flow have terminated.
C3_CompletionBarrier ==
    /\ chanClosed => \A u \in FlowUnits : unit[u] \in {"unspawned", "done"}
    /\ mPc = "returned" => \A u \in FlowUnits : unit[u] = "done"

\* C4: every unit of the issue-comment cleanup is started and runs to its
\* own completion whatever the other units do: the run never ends with a
\* unit unspawned or cut short.
C4_UnitsRunToCompletion ==
    (cFlow = "issue" /\ panicked) => \A u \in FlowUnits : unit[u] = "done"

\* C5: the cleanup returns nil exactly when no unit fails, and otherwise a
\* composite error holding each failed unit's error once.
C5_Aggregation ==
    mPc = "returned" =>
       /\ cRet = "nil" <=> FailedUnits = {}
       /\ cRet = "composite" =>
             /\ Range(errs) = FailedUnits
             /\ Len(errs) = Cardinality(FailedUnits)

\* C34: in no interleaving does a unit send its error on errChan after the
\* channel has been closed, so no run aborts on a closed channel, and no
\* failed unit's error is missing from what the collector gathered when
\* the cleanup returns.
C34_NoSendOnClosed ==
    /\ ~panicked
    /\ \A u \in FlowUnits : unit[u] = "sending" => ~chanClosed
    /\ mPc = "returned" => FailedUnits \subseteq Range(errs)

-----------------------------------------------------------------------------
(***************************************************************************)
(* SpecCleanupLive: SpecCleanup with the scheduling of the Go runtime:     *)
(* a goroutine that can take a step takes one.  Every unit's operation     *)
(* returns (UnitRun is such a step).                                       *)
(***************************************************************************)
SpecCleanupLive == SpecCleanup /\ WF_vars(NextCleanup)

\* C35: every cleanup fan-out terminates, for any number of failing units:
\* no unit stays blocked on its send, the closer closes the channel and
\* the collecting loop returns.
C35_FanOutTerminates ==
    <>(/\ mPc = "returned"
       /\ closerPc = "closed"
       /\ \A u \in FlowUnits : unit[u] = "done")

-----------------------------------------------------------------------------
(***************************************************************************)
(* SpecDeploy: one deploy run, for an issue comment or for a merged pull   *)
(* request, over every rendered bundle.  data.ctx is context.Background(): *)
(* it is never cancelled.  The merge run ends here where it enters         *)
(* pullRequestEventCleanup, whose behaviour is that of SpecCleanup.        *)
(***************************************************************************)
InitDeploy ==
    /\ ctxDone = FALSE
    /\ ExtIdle
    /\ RetryIdle
    /\ WaitIdle
    /\ CleanIdle
    /\ \E f \in {"issue", "pr"}, b \in Bundles :
         /\ flow = f
         /\ bundle = b
         /\ imageTag = IF f = "issue" THEN "abcdef1" ELSE "latest"
         /\ pc = "acquire"
         /\ kubeResources = <<>>
         /\ dIdx = 0
         /\ dRes = <<>>
         /\ trace = <<>>
         /\ deploymentLabels = "empty"
         /\ expectedPods = 0
         /\ dRet = "none"

NextDeploy ==
    \/ DeployAcquire
    \/ DeployRender
    \/ DeployBuild
    \/ DeployPush
    \/ DeployNamespace
    \/ DeployKubeFunc
    \/ DeploySleepEnds
    \/ DeployRetryFails
    \/ DeployNamespaceReturns
    \/ DeployWorkflow
    \/ DeployNextResource
    \/ DeployResourceReturns
    \/ DeployWait
    \/ DeployWaitPolls
    \/ DeployWaitTicks
    \/ DeployWaitReturns

SpecDeploy == InitDeploy /\ [][NextDeploy]_vars

-----------------------------------------------------------------------------
(***************************************************************************)
(* SpecDeployLive: SpecDeploy with the run's goroutine scheduled on: a     *)
(* step that can be taken is taken.                                        *)
(***************************************************************************)
SpecDeployLive == SpecDeploy /\ WF_vars(NextDeploy)

\* C12: the identity's deadline is bounded, so every deploy run ends: it
\* returns (PodsRunning or a failure) or, for a merge, has got through its
\* readiness wait to the cleanup; no readiness wait goes on for ever.
C12_RunEnds == <>(pc \in {"done", "cleanup"})

-----------------------------------------------------------------------------
(***************************************************************************)
(* Properties of the deploy run (SpecDeploy).                              *)
(***************************************************************************)
\* the position of a step in the order the run is to keep
Rank(step) ==
    CASE step = "acquire" -> 1
      [] step = "render" -> 2
      [] step = "build" -> 3
      [] step = "push" -> 4
      [] step = "applyNs" -> 5
      [] step = "workflow" -> 6
      [] step = "apply" -> 7
      [] step = "wait" -> 8

\* the word Namespace occurs in a manifest text
MentionsNamespace(text) == \E k \in 1..Len(text) : text[k] = "Namespace"

\* the rendered bundle holds a namespace manifest
BundleHasNamespace ==
    \E k \in 1..Len(kubeResources) : MentionsNamespace(kubeResources[k].text)

\* the steps that must have returned successfully before a step of rank r
StepsBefore(r) ==
    {st \in {"acquire", "render", "build", "push", "workflow"} : Rank(st) < r}
       \cup (IF BundleHasNamespace /\ r > 5 THEN {"applyNs"} ELSE {})

\* step st ran and succeeded before position j of the trace
SucceededBefore(st, j) ==
    \E i \in 1..(j - 1) : trace[i].step = st /\ trace[i].ok

\* C1: the steps of a deploy run occur in the order acquire, render, build,
\* push, namespace apply, secrets workflow, apply of the other manifests,
\* readiness wait; a step starts only after every earlier step has
\* returned successfully (a failed attempt must have been followed by a
\* successful one of the same step before the next step starts).
C1_StepOrder ==
    \A j \in 1..Len(trace) :
       /\ \A i \in 1..(j - 1) : Rank(trace[i].step) <= Rank(trace[j].step)
       /\ \A st \in StepsBefore(Rank(trace[j].step)) : SucceededBefore(st, j)
       /\ \A i \in 1..(j - 1) :
             (~trace[i].ok /\ <<trace[i].step, trace[i].idx>> # <<trace[j].step, trace[j].idx>>)
                => \E m \in (i + 1)..(j - 1) :
                      /\ trace[m].step = trace[i].step
                      /\ trace[m].idx = trace[i].idx
                      /\ trace[m].ok
       /\ trace[j].step = "wait" =>
             \A k \in 1..Len(kubeResources) :
                ~MentionsNamespace(kubeResources[k].text) =>
                   \E i \in 1..(j - 1) :
                      trace[i].step = "apply" /\ trace[i].idx = k /\ trace[i].ok

\* a run that went through all eight steps, with a namespace manifest and
\* another manifest applied
C1_Witness ==
    /\ Len(trace) >= 8
    /\ trace[Len(trace)].step = "wait"
    /\ \E i \in 1..Len(trace) : trace[i].step = "applyNs" /\ trace[i].ok
    /\ \E i \in 1..Len(trace) : trace[i].step = "apply" /\ trace[i].ok

\* C2: for a bundle that holds a namespace manifest, the secrets workflow
\* is not dispatched and no other manifest is applied before an apply of
\* the namespace manifest has succeeded, whether at the first attempt or
\* after retries; what is applied first is a namespace manifest and what is
\* applied afterwards is not.
C2_NamespaceFirst ==
    BundleHasNamespace =>
       \A j \in 1..Len(trace) :
          /\ trace[j].step \in {"workflow", "apply"} =>
                \E i \in 1..(j - 1) :
                   /\ trace[i].step = "applyNs"
                   /\ trace[i].ok
                   /\ MentionsNamespace(kubeResources[trace[i].idx].text)
          /\ trace[j].step = "apply" =>
                ~MentionsNamespace(kubeResources[trace[j].idx].text)
          /\ trace[j].step = "applyNs" =>
                MentionsNamespace(kubeResources[trace[j].idx].text)

\* the namespace apply failed once, succeeded at the retry, and another
\* manifest was applied afterwards
C2_Witness ==
    \E i, j, k \in 1..Len(trace) :
       /\ i < j /\ j < k
       /\ trace[i].step = "applyNs" /\ ~trace[i].ok
       /\ trace[j].step = "applyNs" /\ trace[j].ok
       /\ trace[k].step = "apply"

\* the text of manifest k of the bundle has the workload token
IsWorkload(k) ==
    \E n \in 1..(Len(kubeResources[k].text) - 1) :
       /\ kubeResources[k].text[n] = "kind:"
       /\ kubeResources[k].text[n + 1] = "Deployment"

\* text is w with every "latest" replaced by tag
Substituted(text, w, tag) ==
    /\ Len(text) = Len(w)
    /\ \A n \in 1..Len(w) :
          text[n] = (IF w[n] = "latest" THEN tag ELSE w[n])

\* C22: what the Cluster Applier is handed for a workload manifest W is W
\* with every "latest" replaced by the image tag when the tag is not
\* "latest" (no "latest" remains), and W itself when the tag is "latest";
\* every other manifest is handed over unchanged.
C22_TagSubstitution ==
    \A j \in 1..Len(trace) :
       trace[j].step \in {"applyNs", "apply"} =>
          LET w == kubeResources[trace[j].idx].text
          IN IF IsWorkload(trace[j].idx) /\ imageTag # "latest"
               THEN /\ Substituted(trace[j].text, w, imageTag)
                    /\ \A n \in 1..Len(trace[j].text) : trace[j].text[n] # "latest"
               ELSE trace[j].text = w

\* the successful applies of manifest k of the bundle
AppliesOf(k) ==
    {j \in 1..Len(trace) :
        trace[j].step \in {"applyNs", "apply"} /\ trace[j].idx = k /\ trace[j].ok}

\* C36: in a deploy run that ends successfully every manifest of the
\* bundle has been applied exactly once: the namespace manifest before the
\* secrets workflow and every other manifest after it, in bundle order;
\* none is skipped, also when several texts contain "Namespace".
C36_EveryManifestOnce ==
    dRet = "nil" =>
       /\ \A k \in 1..Len(kubeResources) : Cardinality(AppliesOf(k)) = 1
       /\ \A i, j \in 1..Len(trace) :
             /\ (trace[i].step = "applyNs" /\ trace[j].step = "workflow") => i < j
             /\ (trace[i].step = "workflow" /\ trace[j].step = "apply") => i < j
             /\ (trace[i].step = "apply" /\ trace[j].step = "apply" /\ i < j)
                    => trace[i].idx <= trace[j].idx

\* entries i and j of the trace are attempts of the same step on the same
\* manifest
SameStep(i, j) == trace[i].step = trace[j].step /\ trace[i].idx = trace[j].idx

IsApply(i) == trace[i].step \in {"applyNs", "apply"}

\* entry i is the attempt at which the Retry Driver's budget for the
\* manifest ran out
Exhausted(i) ==
    /\ IsApply(i)
    /\ Cardinality({m \in 1..i : SameStep(m, i) /\ ~trace[m].ok}) = KubeAttempts
    /\ \A m \in 1..i : SameStep(m, i) => ~trace[m].ok

\* what the trace shows of a failed step: nothing follows it
StopsAtFailure ==
    /\ \A i \in 1..Len(trace) :
          ~trace[i].ok =>
             IF IsApply(i)
               THEN /\ \A j \in (i + 1)..Len(trace) :
                          ~SameStep(i, j) =>
                             \E m \in (i + 1)..(j - 1) : SameStep(i, m) /\ trace[m].ok
                    /\ Exhausted(i) =>
                          /\ i = Len(trace)
                          /\ pc \in {"nsRetry", "applyRetry", "done"}
               ELSE /\ i = Len(trace)
                    /\ pc = "done"
                    /\ dRet = "err"
    /\ dRet = "err" => (pc = "done" /\ mPc = "idle")
    /\ pc = "cleanup" => (flow = "pr" /\ trace[Len(trace)].step = "wait")

\* a readiness wait that returned an error ends the run, and the cleanup of
\* the merge flow is entered only from a readiness wait that returned nil
WaitGatesCleanup ==
    /\ (pc = "waiting" /\ wPc = "done" /\ wRet # "nil") =>
          (pc' \in {"waiting", "done"} /\ mPc' = "idle")
    /\ (pc # "cleanup" /\ pc' = "cleanup") =>
          (pc = "waiting" /\ wPc = "done" /\ wRet = "nil" /\ flow = "pr")

\* C27: a deploy run stops at the first step that fails: acquisition,
\* rendering, build, push, the secrets workflow and the readiness wait at
\* their error, an apply when the Retry Driver's attempts are used up;
\* nothing is applied, waited for or cleaned up afterwards.
C27_FailStop == []StopsAtFailure /\ [][WaitGatesCleanup]_vars

\* the attempts of an apply were used up and the run returned the error
C27_Witness ==
    /\ pc = "done"
    /\ dRet = "err"
    /\ \E i \in 1..Len(trace) : Exhausted(i) /\ trace[i].step = "apply"

-----------------------------------------------------------------------------
(***************************************************************************)
(* SpecCluster: up to MaxOps calls of Deploy and Delete, one after the     *)
(* other, on a cluster that starts empty or holding one resource of every  *)
(* supported kind; each GET and each mutation may fail.                    *)
(***************************************************************************)
FrameCluster ==
    <<ctxDone, retryVars, waitVars, cleanVars, deployVars, pkgVars, envVars,
      eventVars, auxVars>>

\* a cluster on which every supported kind has been applied before
FullCluster ==
    [k \in SupportedKinds |->
        [exists |-> TRUE,
         image |-> IF k = "Deployment" THEN <<"nginx", "stable">> ELSE <<>>,
         restartedAt |-> 0]]

InitCluster ==
    /\ ctxDone = FALSE
    /\ RetryIdle
    /\ WaitIdle
    /\ CleanIdle
    /\ DeployIdle
    /\ PackageIdle
    /\ EnvIdle
    /\ EventIdle
    /\ AuxIdle
    /\ cluster \in {[k \in SupportedKinds |-> Absent], FullCluster}
    /\ clock = 1
    /\ kHist = <<>>

ClusterDeploy == KubeDeploy /\ UNCHANGED FrameCluster

ClusterDelete == KubeDelete /\ UNCHANGED FrameCluster

NextCluster ==
    \/ ClusterDeploy
    \/ ClusterDelete

SpecCluster == InitCluster /\ [][NextCluster]_vars

-----------------------------------------------------------------------------
(***************************************************************************)
(* Properties of the cluster client (SpecCluster).                         *)
(***************************************************************************)
\* the calls of op made with a manifest of a supported kind
IsOp(e, op) == e.op = op /\ e.m.decodes /\ e.m.kind \in SupportedKinds

Verbs(e) == [k \in 1..Len(e.calls) |-> e.calls[k].verb]

\* one GET, then create on not-found, update on found, nothing on an error
DeployCallsRight(e) ==
    /\ e.get = "notFound" => Verbs(e) = <<"get", "create">>
    /\ e.get = "found" => Verbs(e) = <<"get", "update">>
    /\ e.get = "error" =>
          /\ Verbs(e) = <<"get">>
          /\ e.ret = "getErr"
          /\ e.after = e.before
    /\ e.get \in {"notFound", "found", "error"}
    /\ e.get = "notFound" => ~e.before[e.m.kind].exists
    /\ e.get = "found" => e.before[e.m.kind].exists
    /\ e.ret = "nil" => e.after[e.m.kind].exists
    /\ \A k \in SupportedKinds \ {e.m.kind} : e.after[k] = e.before[k]

\* entry i created the resource and entry i + 1 applied the same manifest
\* again, both with success
Reapplied(i) ==
    /\ i + 1 <= Len(kHist)
    /\ IsOp(kHist[i], "Deploy")
    /\ IsOp(kHist[i + 1], "Deploy")
    /\ kHist[i].m = kHist[i + 1].m
    /\ kHist[i].get = "notFound"
    /\ kHist[i].ret = "nil"
    /\ kHist[i + 1].ret = "nil"

\* C13: for a manifest of a supported kind Deploy issues one GET and then
\* exactly one mutation, create on not-found and update on found; on
\* another GET error it returns the error and mutates nothing; after a
\* successful Deploy the resource exists; and applying a manifest when
\* absent and again when present leaves the same resource.
C13_CreateOrUpdate ==
    /\ \A i \in 1..Len(kHist) : IsOp(kHist[i], "Deploy") => DeployCallsRight(kHist[i])
    /\ \A i \in 1..Len(kHist) :
          Reapplied(i) =>
             kHist[i + 1].after[kHist[i].m.kind] = kHist[i].after[kHist[i].m.kind]

\* entries i and i + 1 are Deletes of one manifest, the first returned nil
\* and the second's GET was served
DeletedTwice(i) ==
    /\ i + 1 <= Len(kHist)
    /\ IsOp(kHist[i], "Delete")
    /\ IsOp(kHist[i + 1], "Delete")
    /\ kHist[i].m = kHist[i + 1].m
    /\ kHist[i].ret = "nil"
    /\ kHist[i + 1].get # "error"

\* C14: Delete of a manifest whose resource exists removes it with one
\* delete call; Delete of a manifest whose resource is absent returns nil
\* and issues no delete call; a second Delete after a successful one
\* returns nil and leaves the cluster as the first left it.
C14_DeleteIdempotent ==
    /\ \A i \in 1..Len(kHist) :
          IsOp(kHist[i], "Delete") =>
             /\ (kHist[i].get = "found" /\ kHist[i].ret = "nil") =>
                   /\ Verbs(kHist[i]) = <<"get", "delete">>
                   /\ kHist[i].before[kHist[i].m.kind].exists
                   /\ ~kHist[i].after[kHist[i].m.kind].exists
             /\ (~kHist[i].before[kHist[i].m.kind].exists /\ kHist[i].get # "error") =>
                   /\ kHist[i].ret = "nil"
                   /\ Verbs(kHist[i]) = <<"get">>
                   /\ kHist[i].after = kHist[i].before
             /\ \A k \in SupportedKinds \ {kHist[i].m.kind} :
                   kHist[i].after[k] = kHist[i].before[k]
    /\ \A i \in 1..Len(kHist) :
          DeletedTwice(i) =>
             /\ kHist[i + 1].ret = "nil"
             /\ kHist[i + 1].after = kHist[i].after
             /\ "delete" \notin Range(Verbs(kHist[i + 1]))

\* an existing workload was deleted, and deleted again
C14_Witness ==
    /\ Len(kHist) = 2
    /\ DeletedTwice(1)
    /\ kHist[1].m.kind = "Deployment"
    /\ kHist[1].before["Deployment"].exists
    /\ Verbs(kHist[1]) = <<"get", "delete">>
    /\ Verbs(kHist[2]) = <<"get">>

\* the manifest of a call is a text that does not decode, or one of a kind
\* outside the five supported
Rejected(m) == ~m.decodes \/ m.kind \notin SupportedKinds

\* C30: Deploy and Delete of a manifest text that does not decode, or that
\* decodes to a kind outside the five supported ones, return an error and
\* issue no create, update or delete call: the cluster is as it was.
C30_RejectedManifest ==
    \A k \in 1..Len(kHist) :
       Rejected(kHist[k].m) =>
          /\ kHist[k].ret = IF kHist[k].m.decodes THEN "getErr" ELSE "decodeErr"
          /\ \A j \in 1..Len(kHist[k].calls) :
                kHist[k].calls[j].verb \notin {"create", "update", "delete"}
          /\ kHist[k].after = kHist[k].before

\* a Deploy of a kind without a case and a Delete of a text that does not
\* decode, on a cluster that holds something
C30_Witness ==
    /\ Len(kHist) = 2
    /\ kHist[1].op = "Deploy"
    /\ kHist[1].m.kind = "Namespace"
    /\ kHist[1].ret = "nil"
    /\ kHist[2].op \in {"Deploy", "Delete"}
    /\ Rejected(kHist[2].m)
    /\ kHist[2].ret \in {"getErr", "decodeErr"}
    /\ cluster["Namespace"].exists

\* the object a served Deploy left carries the restart marker
Stamped(e) == e.after[e.m.kind].restartedAt # 0

\* C31: an update of a workload stamps the pod-template restart marker if
\* and only if the image of the workload that already exists in the cluster
\* contains the target tag; a create, and a Deploy of any other kind,
\* stamps none.
C31_RestartMarker ==
    \A k \in 1..Len(kHist) :
       (IsOp(kHist[k], "Deploy") /\ kHist[k].ret = "nil") =>
          (Stamped(kHist[k]) <=>
              /\ kHist[k].get = "found"
              /\ kHist[k].m.kind = "Deployment"
              /\ ImageContains(kHist[k].before["Deployment"].image, DeployTag))

-----------------------------------------------------------------------------
(***************************************************************************)
(* SpecPackage: two calls of DeletePackageImage, each for any tag, in any  *)
(* interleaving of their registry calls, on any list of versions.          *)
(***************************************************************************)
FramePackage ==
    <<ctxDone, retryVars, waitVars, cleanVars, deployVars, clusterVars, envVars,
      eventVars, auxVars>>

InitPackage ==
    /\ ctxDone = FALSE
    /\ RetryIdle
    /\ WaitIdle
    /\ CleanIdle
    /\ DeployIdle
    /\ ClusterIdle
    /\ EnvIdle
    /\ EventIdle
    /\ AuxIdle
    /\ registry \in Registries
    /\ pPc = [c \in Callers |-> "list"]
    /\ pTag \in [Callers -> PackageTags]
    /\ pSeen = [c \in Callers |-> <<>>]
    /\ pCalls = [c \in Callers |-> <<>>]
    /\ pRet = [c \in Callers |-> "none"]

PackageList == (\E c \in Callers : PkgList(c)) /\ UNCHANGED FramePackage

PackageDeleteVersion ==
    (\E c \in Callers : PkgDeleteVersion(c)) /\ UNCHANGED FramePackage

NextPackage ==
    \/ PackageList
    \/ PackageDeleteVersion

SpecPackage == InitPackage /\ [][NextPackage]_vars

-----------------------------------------------------------------------------
(***************************************************************************)
(* Properties of DeletePackageImage (SpecPackage).                         *)
(***************************************************************************)
\* the ids whose delete the registry served
DeletedIds == {pCalls[c][1] : c \in {d \in Callers : pRet[d] = "nil"}}

\* caller c got a listing
Listed(c) == pPc[c] \in {"delete", "done"} /\ pRet[c] # "listErr"

\* a version of caller c's listing carries its tag
SomeCarries(c) == \E k \in 1..Len(pSeen[c]) : pTag[c] \in pSeen[c][k].tags

\* C16: DeletePackageImage lists the versions and asks to delete exactly
\* one, the first listed version whose tags include the tag, and returns
\* nil when that delete is served: the version is then gone and no other
\* version is; when no listed version carries the tag it asks to delete
\* nothing and returns an error.
C16_DeletesFirstTagged ==
    \A c \in Callers :
       /\ (Listed(c) /\ pPc[c] = "done" /\ SomeCarries(c)) =>
             /\ \E k \in 1..Len(pSeen[c]) :
                    /\ pCalls[c] = <<pSeen[c][k].id>>
                    /\ pTag[c] \in pSeen[c][k].tags
                    /\ \A j \in 1..(k - 1) : pTag[c] \notin pSeen[c][j].tags
             /\ pRet[c] \in {"nil", "deleteErr"}
             /\ pRet[c] = "nil" => ~HasId(registry, pCalls[c][1])
       /\ (Listed(c) /\ ~SomeCarries(c)) =>
             /\ pPc[c] = "done"
             /\ pCalls[c] = <<>>
             /\ pRet[c] = "notFoundErr"
       /\ pRet[c] = "nil" => Len(pCalls[c]) = 1
       /\ Listed(c) =>
             \A k \in 1..Len(pSeen[c]) :
                HasId(registry, pSeen[c][k].id) <=> pSeen[c][k].id \notin DeletedIds

\* two versions carry the tag: the first one was deleted, the second is
\* still there
C16_Witness ==
    \E c \in Callers :
       /\ pRet[c] = "nil"
       /\ Len(pSeen[c]) = 2
       /\ pTag[c] \in pSeen[c][1].tags
       /\ pTag[c] \in pSeen[c][2].tags
       /\ pCalls[c] = <<1>>
       /\ registry = <<pSeen[c][2]>>

-----------------------------------------------------------------------------
(***************************************************************************)
(* SpecCleanTwice: the issue-comment cleanup of one identity, and then the *)
(* same cleanup once more, each under every schedule of its goroutines;    *)
(* or the PR-merge cleanup, once.  At the start everything the identity's  *)
(* deploy left is in place.                                                *)
(***************************************************************************)
FrameCleanTwice == <<ctxDone, retryVars, waitVars, deployVars, auxVars>>

InitCleanTwice ==
    /\ ctxDone = FALSE
    /\ RetryIdle
    /\ WaitIdle
    /\ DeployIdle
    /\ EventIdle
    /\ AuxIdle
    /\ run = 1
    /\ first = NoFirst
    /\ localImage = TRUE
    /\ localRepo = TRUE
    /\ cluster = FullCluster
    /\ clock = 1
    /\ kHist = <<>>
    /\ registry = <<[id |-> 1, tags |-> {CleanupTag}], [id |-> 2, tags |-> {"latest"}]>>
    /\ pPc = [c \in Callers |-> "idle"]
    /\ pTag = [c \in Callers |-> "latest"]
    /\ pSeen = [c \in Callers |-> <<>>]
    /\ pCalls = [c \in Callers |-> <<>>]
    /\ pRet = [c \in Callers |-> "none"]
    /\ cFlow \in {"issue", "pr"}
    /\ mPc = "closer"
    /\ mNext = 1
    /\ closerPc = "none"
    /\ wg = 0
    /\ chanClosed = FALSE
    /\ unit = [u \in AllUnits |-> "unspawned"]
    /\ outcome = [u \in AllUnits |-> "unknown"]
    /\ errs = <<>>
    /\ cRet = "none"
    /\ panicked = FALSE

TwiceGoCloser == MainGoCloser /\ UNCHANGED <<FrameCleanTwice, extVars>>

TwiceSpawn == MainSpawn /\ UNCHANGED <<FrameCleanTwice, extVars>>

TwiceCloserWait == CloserWait /\ UNCHANGED <<FrameCleanTwice, extVars>>

TwiceCloserResume == CloserResume /\ UNCHANGED <<FrameCleanTwice, extVars>>

TwiceCloserClose == CloserClose /\ UNCHANGED <<FrameCleanTwice, extVars>>

TwiceUnitRun == (\E u \in AllUnits : UnitRunEnv(u)) /\ UNCHANGED FrameCleanTwice

TwiceUnitSendOnClosed ==
    (\E u \in AllUnits : UnitSendOnClosed(u)) /\ UNCHANGED <<FrameCleanTwice, extVars>>

TwiceUnitDone ==
    (\E u \in AllUnits : UnitDone(u)) /\ UNCHANGED <<FrameCleanTwice, extVars>>

TwiceCollectRecv ==
    (\E u \in AllUnits : CollectRecv(u)) /\ UNCHANGED <<FrameCleanTwice, extVars>>

TwiceCollectReturn == CollectReturn /\ UNCHANGED <<FrameCleanTwice, extVars>>

TwiceCleanAgain == CleanAgain /\ UNCHANGED FrameCleanTwice

NextCleanTwice ==
    \/ TwiceGoCloser
    \/ TwiceSpawn
    \/ TwiceCloserWait
    \/ TwiceCloserResume
    \/ TwiceCloserClose
    \/ TwiceUnitRun
    \/ TwiceUnitSendOnClosed
    \/ TwiceUnitDone
    \/ TwiceCollectRecv
    \/ TwiceCollectReturn
    \/ TwiceCleanAgain

SpecCleanTwice == InitCleanTwice /\ [][NextCleanTwice]_vars

\* C15: the second of two issue-comment cleanups of one identity returns
\* nil and ends in the terminal state the first one left: cluster
\* resources, local image, local source tree and remote image version that
\* are already absent count as not-found and not as errors.
C15_CleanupTwice ==
    (run = 2 /\ mPc = "returned" /\ \A u \in FlowUnits : unit[u] = "done") =>
       /\ cRet = "nil"
       /\ Terminal = first.terminal

\* the units the caller has started
Spawned == {u \in AllUnits : unit[u] # "unspawned"}

\* what the identity's deploy left in the registry
DeployedRegistry ==
    <<[id |-> 1, tags |-> {CleanupTag}], [id |-> 2, tags |-> {"latest"}]>>

\* C29: the issue-comment cleanup spawns exactly four units and its remote
\* image version delete removes the version tagged with the identity's
\* imageTag and no other; the PR-merge cleanup spawns exactly two units,
\* the local image delete and the local source tree delete, and leaves
\* the cluster and the registry as they were.
C29_CleanupUnits ==
    /\ cFlow = "issue" =>
          /\ mPc \in {"collect", "returned"} => Spawned = AllUnits
          /\ Len(UnitsOf(cFlow)) = 4
          /\ run = 1 =>
                registry = IF outcome["package"] = "ok"
                             THEN <<[id |-> 2, tags |-> {"latest"}]>>
                             ELSE DeployedRegistry
          /\ (run = 1 /\ unit["package"] \in {"exiting", "done"}) =>
                outcome["package"] = "ok"
    /\ cFlow = "pr" =>
          /\ Spawned \subseteq {"image", "repo"}
          /\ mPc \in {"collect", "returned"} => Spawned = {"image", "repo"}
          /\ Len(UnitsOf(cFlow)) = 2
          /\ outcome["kube"] = "unknown"
          /\ outcome["package"] = "unknown"
          /\ cluster = FullCluster
          /\ registry = DeployedRegistry
          /\ outcome["image"] = "ok" => ~localImage
          /\ outcome["repo"] = "ok" => ~localRepo

\* a PR-merge cleanup has returned: the build host is cleared, the cluster
\* and the registry are untouched
C29_Witness ==
    /\ cFlow = "pr"
    /\ mPc = "returned"
    /\ cRet = "nil"
    /\ unit["image"] = "done"
    /\ unit["repo"] = "done"
    /\ unit["kube"] = "unspawned"
    /\ unit["package"] = "unspawned"
    /\ ~localImage
    /\ ~localRepo
    /\ cluster = FullCluster
    /\ registry = DeployedRegistry

-----------------------------------------------------------------------------
(***************************************************************************)
(* SpecEvents: the processing of one inbound event, whatever it is, under  *)
(* either configured deploy label.                                         *)
(***************************************************************************)
FrameEvents ==
    <<ctxDone, retryVars, waitVars, cleanVars, deployVars, clusterVars, pkgVars,
      envVars, auxVars>>

InitEvents ==
    /\ ctxDone = FALSE
    /\ RetryIdle
    /\ WaitIdle
    /\ CleanIdle
    /\ DeployIdle
    /\ ClusterIdle
    /\ PackageIdle
    /\ EnvIdle
    /\ AuxIdle
    /\ event \in Events
    /\ cfgLabel \in ConfiguredLabels
    /\ ePc = "recv"
    /\ route = "none"
    /\ effects = <<>>
    /\ failed = FALSE
    /\ lIdx = 0
    /\ sIdx = 0
    /\ pending = {}
    /\ eRet = "none"
    /\ telemetry = <<>>

EventReceive == EvReceive /\ UNCHANGED FrameEvents

EventLookup == EvLookup /\ UNCHANGED FrameEvents

EventNextLabel == EvNextLabel /\ UNCHANGED FrameEvents

EventAcquire == EvAcquire /\ UNCHANGED FrameEvents

EventRender == EvRender /\ UNCHANGED FrameEvents

EventDeployStep == EvDeployStep /\ UNCHANGED FrameEvents

EventCleanupUnit == EvCleanupUnit /\ UNCHANGED FrameEvents

EventCleanupReturns == EvCleanupReturns /\ UNCHANGED FrameEvents

NextEvents ==
    \/ EventReceive
    \/ EventLookup
    \/ EventNextLabel
    \/ EventAcquire
    \/ EventRender
    \/ EventDeployStep
    \/ EventCleanupUnit
    \/ EventCleanupReturns

SpecEvents == InitEvents /\ [][NextEvents]_vars

-----------------------------------------------------------------------------
(***************************************************************************)
(* Properties of the event processing (SpecEvents).                        *)
(***************************************************************************)
Invoked == Range(effects)

DeployWork == {"build", "push", "apply", "workflow", "wait"}

CleanupWork == {"imageDelete", "kubeDelete", "repoDelete", "packageDelete"}

\* the number of times a collaborator was invoked
Times(name) == Cardinality({k \in 1..Len(effects) : effects[k] = name})

\* a comment on a pull request whose body contains "deploy dev"
DeployDevComment ==
    /\ event.type = "issue_comment"
    /\ event.isPR
    /\ \E k \in 1..Len(event.body) :
          /\ k < Len(event.body)
          /\ event.body[k] = "deploy"
          /\ event.body[k + 1] = "dev"

\* lookup, acquisition and rendering have succeeded
Prepared ==
    /\ Len(effects) >= 3
    /\ (Len(effects) = 3 => ePc # "done")

\* C17: for a "deploy dev" comment on a pull request, action "deleted"
\* runs the cleanup flow and never builds, pushes or applies; any other
\* action runs the deploy flow and never starts a cleanup unit; one of the
\* two flows is chosen, and only one.
C17_CommentRouting ==
    DeployDevComment =>
       /\ event.action = "deleted" =>
             /\ Invoked \cap DeployWork = {}
             /\ route \in {"none", "cleanup"}
             /\ Prepared => route = "cleanup"
             /\ (Prepared /\ ePc = "done") => CleanupWork \subseteq Invoked
       /\ event.action # "deleted" =>
             /\ Invoked \cap CleanupWork = {}
             /\ route \in {"none", "deploy"}
             /\ Prepared => route = "deploy"
             /\ (Prepared /\ ePc = "done") => "build" \in Invoked

\* the comment was deleted and all four cleanup units ran
C17_Witness ==
    /\ DeployDevComment
    /\ event.action = "deleted"
    /\ ePc = "done"
    /\ CleanupWork \subseteq Invoked

\* base.ref == "main", action == "closed", merged, and a label equal to the
\* configured deploy label
MergeTrigger ==
    /\ event.type = "pull_request"
    /\ event.baseRef = "main"
    /\ event.action = "closed"
    /\ event.merged
    /\ \E k \in 1..Len(event.labels) : event.labels[k] = cfgLabel

\* C18: for a pull-request event the merge deploy is started exactly when
\* base.ref is "main", the action is "closed", the pull request is merged
\* and a label equals the configured deploy label; it is started at most
\* once per event.
C18_MergeTrigger ==
    (event.type = "pull_request" /\ ePc = "done") =>
       /\ Times("acquire") = 1 <=> MergeTrigger
       /\ Times("acquire") <= 1

\* C19: an issue-comment or pull-request event that does not satisfy its
\* trigger predicate invokes no side-effecting collaborator.
C19_Conservative ==
    /\ (event.type = "issue_comment" /\ ~DeployDevComment) => effects = <<>>
    /\ (event.type = "pull_request" /\ ~MergeTrigger) => effects = <<>>

\* C20: an event that is no issue comment, pull request or hook is a
\* no-op: the processing returns nil and emits no error telemetry.
C20_UnknownIsNoop ==
    (event.type = "other" /\ ePc = "done") =>
       /\ eRet = "nil"
       /\ \A k \in 1..Len(telemetry) : telemetry[k] # "error"

-----------------------------------------------------------------------------
(***************************************************************************)
(* SpecIdentity: one call of extractEventData, for either event and every  *)
(* configuration.                                                          *)
(***************************************************************************)
FrameIdentity ==
    <<ctxDone, retryVars, waitVars, cleanVars, deployVars, clusterVars, pkgVars,
      envVars, eventVars, wfVars, sideVars>>

InitIdentity ==
    /\ ctxDone = FALSE
    /\ RetryIdle
    /\ WaitIdle
    /\ CleanIdle
    /\ DeployIdle
    /\ ClusterIdle
    /\ PackageIdle
    /\ EnvIdle
    /\ EventIdle
    /\ WorkflowIdle
    /\ SideIdle
    /\ idIn \in IdentityInputs
    /\ data = NoData

IdentityExtract == IdExtract /\ UNCHANGED FrameIdentity

NextIdentity == IdentityExtract

SpecIdentity == InitIdentity /\ [][NextIdentity]_vars

\* s is p followed by q
IsConcat(s, p, q) ==
    /\ Len(s) = Len(p) + Len(q)
    /\ \A k \in 1..Len(p) : s[k] = p[k]
    /\ \A k \in 1..Len(q) : s[Len(p) + k] = q[k]

Extracted == data.err = "nil"

\* C21: the comment flow takes the branch from the looked-up pull
\* request's head.ref and the image tag from the first seven characters of
\* head.sha; the merge flow takes base.ref and "latest"; the image name is
\* the repository's full name, followed by "-" and the suffix when one is
\* configured; the workflow file is prefix "-" namespace ".yaml".
C21_Identity ==
    Extracted =>
       /\ idIn.type = "issue_comment" =>
             /\ data.ghBranch = idIn.headRef
             /\ Len(data.imageTag) = 7
             /\ \A k \in 1..7 : data.imageTag[k] = idIn.sha[k]
       /\ idIn.type = "pull_request" =>
             /\ data.ghBranch = idIn.baseRef
             /\ data.imageTag = <<"latest">>
       /\ idIn.suffix = <<>> => data.imageName = RepoFullName
       /\ idIn.suffix # <<>> =>
             IsConcat(data.imageName, RepoFullName, <<"-">> \o idIn.suffix)
       /\ IsConcat(data.ghWorkFlowFile, idIn.prefix,
                   <<"-">> \o data.namespace \o <<".yaml">>)

\* a comment whose pull request has a head.sha longer than seven
\* characters, with a suffix configured
C21_Witness ==
    /\ Extracted
    /\ idIn.type = "issue_comment"
    /\ Len(idIn.sha) > 7
    /\ idIn.suffix # <<>>

\* C39: in the comment flow and in the merge flow alike the identity's
\* repoName is the event's repo.name, so the secrets workflow is dispatched
\* against a non-empty repository name, that of the event's repository.
C39_RepoNameSet ==
    Extracted =>
       /\ data.ghRepoName = RepoName
       /\ data.ghRepoName # <<>>

-----------------------------------------------------------------------------
(***************************************************************************)
(* SpecWorkflow: one call of TriggerWorkFlow, against a forge that answers *)
(* each request in any way it can.                                         *)
(***************************************************************************)
FrameWorkflow ==
    <<ctxDone, retryVars, waitVars, cleanVars, deployVars, clusterVars, pkgVars,
      envVars, eventVars, idVars, sideVars>>

InitWorkflow ==
    /\ ctxDone = FALSE
    /\ RetryIdle
    /\ WaitIdle
    /\ CleanIdle
    /\ DeployIdle
    /\ ClusterIdle
    /\ PackageIdle
    /\ EnvIdle
    /\ EventIdle
    /\ IdentityIdle
    /\ SideIdle
    /\ wfPc = "dispatch"
    /\ interval = 0
    /\ elapsed = 0
    /\ wfLog = <<>>
    /\ wfRet = "none"
    /\ latest \in {"none", "old"}

WorkflowDispatch == WfDispatch /\ UNCHANGED FrameWorkflow

WorkflowSleep == WfSleep /\ UNCHANGED FrameWorkflow

WorkflowPoll == WfPoll /\ UNCHANGED FrameWorkflow

WorkflowFinal == WfFinalCheck /\ UNCHANGED FrameWorkflow

WorkflowRunAppears == WfRunAppears /\ UNCHANGED FrameWorkflow

NextWorkflow ==
    \/ WorkflowDispatch
    \/ WorkflowSleep
    \/ WorkflowPoll
    \/ WorkflowFinal
    \/ WorkflowRunAppears

SpecWorkflow == InitWorkflow /\ [][NextWorkflow]_vars

-----------------------------------------------------------------------------
(***************************************************************************)
(* Properties of the Workflow Trigger (SpecWorkflow).                      *)
(***************************************************************************)
IsQuery(k) == wfLog[k].ev \in {"poll", "final"}

Completed(k) == IsQuery(k) /\ wfLog[k].obs.err = "nil" /\ wfLog[k].obs.status = "completed"

Succeeded(k) == Completed(k) /\ wfLog[k].obs.conclusion = "success"

\* the positions of the sleeps in the log, and the k-th of them
SleepsAt == {k \in 1..Len(wfLog) : wfLog[k].ev = "sleep"}

RECURSIVE SumSleeps(_)
SumSleeps(S) ==
    IF S = {} THEN 0
    ELSE LET k == CHOOSE x \in S : TRUE IN wfLog[k].d + SumSleeps(S \ {k})

\* C23: once a poll has observed the run completed with conclusion
\* success, the Workflow Trigger has returned ok: no status query follows
\* that observation and the result is nil.
C23_SuccessEndsWait ==
    \A k \in 1..Len(wfLog) :
       (wfLog[k].ev = "poll" /\ Succeeded(k)) =>
          /\ wfRet = "nil"
          /\ \A j \in (k + 1)..Len(wfLog) : ~IsQuery(j)

\* C24: an observation, by a poll or by the final check, of a completed
\* run whose conclusion is not success is the last thing the Workflow
\* Trigger does, and it returns an error; the conclusion classifier
\* returns nil for success and for no other conclusion.
C24_NonSuccessIsError ==
    /\ \A k \in 1..Len(wfLog) :
          (Completed(k) /\ ~Succeeded(k)) =>
             /\ k = Len(wfLog)
             /\ wfPc = "done"
             /\ wfRet \notin {"none", "nil", "timeout"}
    /\ \A c \in Conclusions : (HandleWorkflowConclusion(c) = "nil") <=> (c = "success")

\* a poll saw the run completed with conclusion cancelled
C24_Witness ==
    /\ wfPc = "done"
    /\ \E k \in 1..Len(wfLog) :
          /\ wfLog[k].ev = "poll"
          /\ Completed(k)
          /\ wfLog[k].obs.conclusion = "cancelled"

NoPollCompleted == \A k \in 1..Len(wfLog) : wfLog[k].ev = "poll" => ~Completed(k)

FinalsAt == {k \in 1..Len(wfLog) : wfLog[k].ev = "final"}

\* C25: when no poll has observed the run completed and the time cap has
\* ended the polling, exactly one final status query is made, after the
\* polls, and the result is the timeout error when that query does not show
\* the run completed either; a failed dispatch and a failed status query
\* (an empty run list included) are followed by no query, and the result is
\* an error.
C25_FinalCheckAndErrors ==
    /\ Cardinality(FinalsAt) <= 1
    /\ \A k \in FinalsAt : k = Len(wfLog) /\ wfPc = "done"
    /\ (/\ wfPc = "done"
        /\ NoPollCompleted
        /\ \A k \in 1..Len(wfLog) :
              /\ wfLog[k].ev = "dispatch" => wfLog[k].ok
              /\ wfLog[k].ev = "poll" => wfLog[k].obs.err = "nil")
          => /\ Cardinality(FinalsAt) = 1
             /\ \A k \in FinalsAt :
                   (wfLog[k].obs.err = "nil" /\ wfLog[k].obs.status # "completed")
                      => wfRet = "timeout"
    /\ \A k \in 1..Len(wfLog) :
          /\ (wfLog[k].ev = "dispatch" /\ ~wfLog[k].ok) =>
                Len(wfLog) = 1 /\ wfPc = "done" /\ wfRet = "dispatchErr"
          /\ (IsQuery(k) /\ wfLog[k].obs.err # "nil") =>
                k = Len(wfLog) /\ wfPc = "done" /\ wfRet \in {"statusErr", "finalStatusErr"}

\* every poll saw the run in progress, and so did the final check
C25_Witness ==
    /\ wfPc = "done"
    /\ wfRet = "timeout"
    /\ NoPollCompleted
    /\ \E k \in FinalsAt : wfLog[k].obs.status = "in_progress"

\* C26: the wait before the k-th poll is min(5 * 2^(k-1), 30) seconds and
\* never more than 30 s, and the waits of the polling loop add up to no
\* more than the cap of one minute.
C26_PollingSchedule ==
    /\ \A k \in SleepsAt :
          LET n == Cardinality({j \in SleepsAt : j <= k})
          IN /\ wfLog[k].d = Min(5 * Pow2(n - 1), 30)
             /\ wfLog[k].d <= 30
    /\ SumSleeps(SleepsAt) <= 60

\* the status query that decided what the Workflow Trigger returned
Deciding == wfLog[Len(wfLog)]

\* C40: the status and conclusion the Workflow Trigger classifies belong
\* to the run its own dispatch created: it returns nothing on the basis of
\* an older run of the workflow file on the branch that was listed first
\* when the dispatch was submitted.
C40_OwnRunOnly ==
    (/\ wfPc = "done"
     /\ Deciding.ev \in {"poll", "final"}
     /\ Deciding.obs.err = "nil") => Deciding.run = "own"

\* C28: a run that ends in a failure, the failure of a Retry Driver whose
\* attempts are used up included, has sent a telemetry entry at critical
\* level by the time it ends.
C28_CriticalOnFailure ==
    (ePc = "done" /\ eRet = "err" /\ event.type \in {"issue_comment", "pull_request"})
       => \E k \in 1..Len(telemetry) : telemetry[k] = "critical"

-----------------------------------------------------------------------------
(***************************************************************************)
(* SpecRuns: up to MaxRuns events arrive at one Server, each processed by  *)
(* the goroutine WebhookHandler starts for it; the goroutines run in any   *)
(* order and share Options.LocalRepoDir.                                   *)
(***************************************************************************)
FrameRuns ==
    <<ctxDone, retryVars, waitVars, cleanVars, deployVars, clusterVars, pkgVars,
      envVars, eventVars, idVars, wfVars, kcVars>>

InitRuns ==
    /\ ctxDone = FALSE
    /\ RetryIdle
    /\ WaitIdle
    /\ CleanIdle
    /\ DeployIdle
    /\ ExtIdle

RunsSpawn == (\E r \in Runs : RunSpawn(r)) /\ UNCHANGED FrameRuns

RunsAcquire == (\E r \in Runs : RunAcquire(r)) /\ UNCHANGED FrameRuns

RunsRender == (\E r \in Runs : RunRender(r)) /\ UNCHANGED FrameRuns

RunsBuild == (\E r \in Runs : RunBuild(r)) /\ UNCHANGED FrameRuns

RunsDeleteTree == (\E r \in Runs : RunDeleteTree(r)) /\ UNCHANGED FrameRuns

NextRuns ==
    \/ RunsSpawn
    \/ RunsAcquire
    \/ RunsRender
    \/ RunsBuild
    \/ RunsDeleteTree

SpecRuns == InitRuns /\ [][NextRuns]_vars

\* C33: the local source directory is owned by one pipeline run for its
\* duration: no run updates or deletes it while another run is between
\* its source acquisition and the end of its rendering and image build.
C33_DirectoryOwned == lastWrite.busy = {}

\* C38: after the Source Acquirer returns ok for (localDir, repoFullName,
\* branch) the tree in localDir is the requested branch ("main" for an
\* empty one) of the requested repository, both when localDir was absent
\* and when it held a clone left by an earlier run.
C38_AcquiredIsRequested ==
    (lastWrite.op \in {"clone", "pull"} /\ lastWrite.ret = "nil") =>
       lastWrite.after = Clone(lastWrite.req)

-----------------------------------------------------------------------------
(***************************************************************************)
(* SpecKubeCleanup: one run of the cluster-delete cleanup unit over        *)
(* CleanupBundle, whatever the cluster answers to each Delete.             *)
(***************************************************************************)
FrameKubeCleanup ==
    <<ctxDone, retryVars, waitVars, cleanVars, deployVars, clusterVars, pkgVars,
      envVars, eventVars, idVars, wfVars, runVars>>

InitKubeCleanup ==
    /\ ctxDone = FALSE
    /\ RetryIdle
    /\ WaitIdle
    /\ CleanIdle
    /\ DeployIdle
    /\ ClusterIdle
    /\ PackageIdle
    /\ EnvIdle
    /\ EventIdle
    /\ IdentityIdle
    /\ WorkflowIdle
    /\ RunsIdle
    /\ kcPc = "run"
    /\ kcIdx = 1
    /\ kcTries = 0
    /\ kcLog = <<>>
    /\ kcRet = "none"

KubeCleanupAttempt == KcAttempt /\ UNCHANGED FrameKubeCleanup

NextKubeCleanup == KubeCleanupAttempt

SpecKubeCleanup == InitKubeCleanup /\ [][NextKubeCleanup]_vars

\* the Delete attempts made on manifest k
AttemptsOn(k) == {j \in 1..Len(kcLog) : kcLog[j].idx = k}

\* C37: every manifest of the bundle receives a delete attempt, also when
\* the delete of an earlier manifest has failed after its retries, and
\* the unit reports the failures it met.
C37_BestEffortDelete ==
    kcPc = "done" =>
       /\ \A k \in 1..Len(CleanupBundle) : AttemptsOn(k) # {}
       /\ kcRet = "err" <=>
             \E k \in 1..Len(CleanupBundle) :
                \A j \in AttemptsOn(k) : ~kcLog[j].ok

=============================================================================
